---- MODULE Spec2Model ----
(***************************************************************************)
(* SimCam optics calculator (scripts/simcam.py, simcam_calc.py,            *)
(* simcam_data.py): the metrics engine calculate_metrics, the lens          *)
(* compatibility filter and the "Optimize ..." button handlers.             *)
(*                                                                         *)
(* Numbers.  Python floats are modelled as exact rationals <<n, d>> with   *)
(* d > 0 and gcd(n, d) = 1 (decimal literals such as 3.45 are the          *)
(* rational 69/20).  degrees(atan(x)) is strictly increasing in x, so an   *)
(* angle is carried by its tangent; the two fixed angles of the code       *)
(* (90.0 and 89.0 degrees) are carried as degrees.                         *)
(***************************************************************************)
EXTENDS Integers, Naturals, Sequences, FiniteSets, TLC

VARIABLES
    args,           \* arguments of the last direct call of calculate_metrics
    m,              \* the record that call returned
    called,         \* TRUE once calculate_metrics has returned for args
    base_params,    \* st.session_state.base_params (baseline configuration)
    ss,             \* st.session_state: focal, aperture, distance, ...
    w,              \* sidebar widget values of the current script run
    valid_configs,  \* valid_configs of the last "Optimize System" run
    msg,            \* what the last handler reported (st.error), "" if nothing
    vals,           \* vals of the last script run (simcam.py:932)
    run             \* what triggered the last script run

vars == <<args, m, called, base_params, ss, w, valid_configs, msg, vals, run>>

(***************************************************************************)
(* Rational arithmetic                                                     *)
(***************************************************************************)
Abs(x) == IF x < 0 THEN -x ELSE x

RECURSIVE GCD(_, _)
GCD(a, b) == IF b = 0 THEN a ELSE GCD(b, a % b)

\* the rational n/d (d # 0), reduced, with a positive denominator
R(n, d) ==
    LET g == GCD(Abs(n), Abs(d))
        s == IF d < 0 THEN -1 ELSE 1
    IN  <<s * (n \div g), s * (d \div g)>>

I(n) == <<n, 1>>
Zero == <<0, 1>>

RNeg(a) == <<-a[1], a[2]>>

RAdd(a, b) ==
    LET g == GCD(a[2], b[2])
    IN  R(a[1] * (b[2] \div g) + b[1] * (a[2] \div g), (a[2] \div g) * b[2])

RSub(a, b) == RAdd(a, RNeg(b))

\* cross-cancelled product: overflows only if the reduced result does
RMul(a, b) ==
    LET g1 == GCD(Abs(a[1]), b[2])
        g2 == GCD(Abs(b[1]), a[2])
    IN  <<(a[1] \div g1) * (b[1] \div g2), (a[2] \div g2) * (b[2] \div g1)>>

\* a / b, b # 0 (a zero divisor is Python's ZeroDivisionError, see Raises)
RDiv(a, b) ==
    IF b[1] < 0 THEN RMul(a, <<-b[2], -b[1]>>) ELSE RMul(a, <<b[2], b[1]>>)

RSq(a) == RMul(a, a)

\* comparison by continued-fraction expansion (no products, no overflow)
RECURSIVE PosLess(_, _, _, _)
PosLess(an, ad, bn, bd) ==
    LET qa == an \div ad
        qb == bn \div bd
        ra == an % ad
        rb == bn % bd
    IN  IF qa # qb THEN qa < qb
        ELSE IF rb = 0 THEN FALSE
        ELSE IF ra = 0 THEN TRUE
        ELSE PosLess(bd, rb, ad, ra)

RLt(a, b) == PosLess(a[1], a[2], b[1], b[2])
RLe(a, b) == ~RLt(b, a)
RGt(a, b) == RLt(b, a)
RGe(a, b) == ~RLt(a, b)
RMax(a, b) == IF RLt(a, b) THEN b ELSE a
RMin(a, b) == IF RLt(b, a) THEN b ELSE a
RAbs(a) == <<Abs(a[1]), a[2]>>

\* 2r = q*d + rem for 0 <= r < d, as <<q, rem>>, without forming 2r
Twice(r, d) == IF r >= d - r THEN <<1, r - (d - r)>> ELSE <<0, r + r>>

\* 10r = q*d + rem for 0 <= r < d, as <<q, rem>>, without forming 10r
Times10(r, d) ==
    LET t2 == Twice(r, d)
        t4 == Twice(t2[2], d)
        t8 == Twice(t4[2], d)
        q8 == 4 * t2[1] + 2 * t4[1] + t8[1]
    IN  IF t8[2] >= d - t2[2]
        THEN <<q8 + t2[1] + 1, t8[2] - (d - t2[2])>>
        ELSE <<q8 + t2[1], t8[2] + t2[2]>>

\* the first k decimals of r/d (0 <= r < d) as an integer, by long division
RECURSIVE Decimals(_, _, _)
Decimals(r, d, k) ==
    IF k = 0 THEN 0
    ELSE LET t == Times10(r, d)
             rest == Decimals(t[2], d, k - 1)
             p == IF k = 1 THEN 1 ELSE IF k = 2 THEN 10 ELSE 100
         IN  t[1] * p + rest

\* x rounded down to a multiple of 1/1000
Mm3(a) == R((a[1] \div a[2]) * 1000 + Decimals(a[1] % a[2], a[2], 3), 1000)

\* x + y = q*c + rem for 0 <= x, y < c, as <<q, rem>>, without forming x + y
AddMod(x, y, c) == IF x >= c - y THEN <<1, x - (c - y)>> ELSE <<0, x + y>>

\* a*b = q*c + rem for 0 <= a < c and b >= 0, as <<q, rem>>: long
\* multiplication over the base-4 digits of b, the product is formed only
\* when it fits TLC's integers
RECURSIVE MulDivModIn(_, _, _)
MulDivModIn(a, b, c) ==
    IF a = 0 \/ b = 0 THEN <<0, 0>>
    ELSE IF b <= 2147483647 \div a THEN <<(a * b) \div c, (a * b) % c>>
    ELSE LET h == MulDivModIn(a, b \div 4, c)
             t2 == Twice(h[2], c)
             t4 == Twice(t2[2], c)
             a2 == Twice(a, c)
             a3 == AddMod(a2[2], a, c)
             k == b % 4
             ka == IF k = 0 THEN <<0, 0>>
                   ELSE IF k = 1 THEN <<0, a>>
                   ELSE IF k = 2 THEN a2
                   ELSE <<a2[1] + a3[1], a3[2]>>
             s == AddMod(t4[2], ka[2], c)
         IN  <<4 * h[1] + 2 * t2[1] + t4[1] + ka[1] + s[1], s[2]>>

\* a*b = q*c + rem (a, b >= 0, c > 0) as <<q, rem>>
MulDivMod(a, b, c) ==
    LET big == IF a >= b THEN a ELSE b
        small == IF a >= b THEN b ELSE a
        inner == MulDivModIn(big % c, small, c)
    IN  <<(big \div c) * small + inner[1], inner[2]>>

\* H*fd / (H + sgn*fd) for H, fd > 0 and H + sgn*fd > 0, rounded down to a
\* multiple of 1/1000; computed as fd * [H / (H + sgn*fd)]
DofLimit(Hh, fd, sgn) ==
    LET rr == R(Hh[1] * fd[2], Hh[1] * fd[2] + sgn * fd[1] * Hh[2])
        g1 == GCD(fd[1], rr[2])
        g2 == GCD(rr[1], fd[2])
        den == (fd[2] \div g2) * (rr[2] \div g1)
        qr == MulDivMod(fd[1] \div g1, rr[1] \div g2, den)
    IN  R(qr[1] * 1000 + Decimals(qr[2], den, 3), 1000)

\* the integer part of a*b for rationals a, b >= 0, without forming a*b
MulFloor(a, b) ==
    LET g1 == GCD(a[1], b[2])
        g2 == GCD(b[1], a[2])
    IN  MulDivMod(a[1] \div g1, b[1] \div g2, (a[2] \div g2) * (b[2] \div g1))[1]

\* a*b rounded down to a multiple of 1/1000, for a, b >= 0 without forming
\* a*b
Mm3Prod(a, b) ==
    IF a[1] < 0 \/ b[1] < 0 THEN Mm3(RMul(a, b))
    ELSE LET g1 == GCD(a[1], b[2])
             g2 == GCD(b[1], a[2])
             den == (a[2] \div g2) * (b[2] \div g1)
             qr == MulDivMod(a[1] \div g1, b[1] \div g2, den)
         IN  R(qr[1] * 1000 + Decimals(qr[2], den, 3), 1000)

\* Python int(x): truncation toward zero
RInt(a) == IF a[1] >= 0 THEN a[1] \div a[2] ELSE -((-a[1]) \div a[2])

(***************************************************************************)
(* Constants and catalog (simcam_data.py)                                  *)
(***************************************************************************)
BALL_DIAMETER_MM == R(4267, 100)
BALL_RADIUS_MM == RDiv(BALL_DIAMETER_MM, I(2))

\* a qe table is a function from the wavelengths it lists to fractions
IMX296 == [width_px |-> 1440, height_px |-> 1080, pixel_size |-> R(345, 100),
           qe |-> (730 :> R(30, 100) @@ 780 :> R(25, 100) @@ 810 :> R(21, 100)
                   @@ 850 :> R(15, 100) @@ 940 :> R(7, 100))]
OV9281 == [width_px |-> 1280, height_px |-> 800, pixel_size |-> I(3),
           qe |-> (730 :> R(35, 100) @@ 780 :> R(31, 100) @@ 810 :> R(28, 100)
                   @@ 850 :> R(20, 100) @@ 940 :> R(9, 100))]
OS08A20 == [width_px |-> 3840, height_px |-> 2160, pixel_size |-> I(2),
            qe |-> (730 :> R(75, 100) @@ 780 :> R(72, 100) @@ 810 :> R(70, 100)
                    @@ 850 :> R(60, 100) @@ 940 :> R(40, 100))]

SENSORS == <<IMX296, OV9281, OS08A20>>

DEFAULT_BASE_PARAMS ==
    [sensor |-> IMX296, focal |-> I(6), aperture |-> R(12, 10),
     distance |-> I(430), wavelength |-> 810]

\* dict.get(key, default)
Get(d, k, default) == IF k \in DOMAIN d THEN d[k] ELSE default

(***************************************************************************)
(* Catalog expansion (simcam_data.py:153-182, the same lines as            *)
(* simcam.py:157-186).  A raw entry gives its focal length and its         *)
(* aperture either as one number or as a (min, max) tuple.  The counter of *)
(* the while loops is a float that grows by repeated addition of 0.1: it   *)
(* is kept in units of 10^-6 and every addition may be off by drift units, *)
(* the same way throughout a loop (a double is off by far less).           *)
(***************************************************************************)
Single(x) == [range |-> FALSE, min |-> x, max |-> x]
Range(lo, hi) == [range |-> TRUE, min |-> lo, max |-> hi]

\* entries of RAW_LENS_DATABASE (simcam_data.py:81-150)
RAW_LENS_CHOICES ==
    { [model |-> "Varifocal 2.8-12mm", focal_data |-> Range(R(28, 10), I(12)),
       aper_data |-> Range(R(16, 10), I(16)), img_circle |-> I(9)],
      [model |-> "Arducam LN081", focal_data |-> Single(R(45, 10)),
       aper_data |-> Single(I(2)), img_circle |-> I(9)],
      [model |-> "Arducam M25156H18", focal_data |-> Single(R(156, 100)),
       aper_data |-> Single(I(2)), img_circle |-> R(77, 10)],
      [model |-> "Arducam CS 6mm F1.2", focal_data |-> Single(I(6)),
       aper_data |-> Range(R(12, 10), I(16)), img_circle |-> I(8)],
      [model |-> "Arducam C 25mm", focal_data |-> Single(I(25)),
       aper_data |-> Range(R(14, 10), I(16)), img_circle |-> I(16)],
      [model |-> "CIL207", focal_data |-> Single(R(8, 10)),
       aper_data |-> Single(R(19, 10)), img_circle |-> I(4)],
      [model |-> "CIL557 (C-Mt)", focal_data |-> Single(I(75)),
       aper_data |-> Range(I(3), I(16)), img_circle |-> R(193, 10)],
      [model |-> "CIL505 (C-Mt)", focal_data |-> Single(R(22, 10)),
       aper_data |-> Range(R(22, 10), I(16)), img_circle |-> R(142, 10)],
      [model |-> "Arducam M2306ZM13", focal_data |-> Single(I(6)),
       aper_data |-> Single(I(2)), img_circle |-> R(77, 10)],
      [model |-> "Arducam M2508ZH02", focal_data |-> Single(I(8)),
       aper_data |-> Single(I(2)), img_circle |-> R(71, 10)],
      [model |-> "Arducam CS 6mm", focal_data |-> Single(I(6)),
       aper_data |-> Single(R(14, 10)), img_circle |-> R(77, 10)],
      [model |-> "CIL215", focal_data |-> Single(R(15, 10)),
       aper_data |-> Single(I(2)), img_circle |-> R(42, 10)] }

\* a decimal literal in units of 10^-6
Micro(x) == (x[1] * 1000000) \div x[2]

\* the loop counter after i executions of "curr += 0.1" (lines 162, 173)
curr(min, i, drift) == Micro(min) + i * (100000 + drift)

\* round(x, 1) of x >= 0 in units of 10^-6, as a number of tenths
Round1(x) == (x + 50000) \div 100000

\* the appends of a while loop (lines 159-162, 170-173).  The counter only
\* grows, so the loop body runs for i = 0, 1, ... as long as
\* curr <= max + 0.001; MaxSteps caps the number of passes.
MaxSteps == 200

\* mutation: the loop stops before the counter reaches max (no + 0.001)
ExpandRange_strictly_below(min, max, drift) ==
    LET n == Cardinality({i \in 0..MaxSteps : curr(min, i, drift) < Micro(max)})
    IN  [i \in 1..n |-> R(Round1(curr(min, i - 1, drift)), 10)]

ExpandRange(min, max, drift) ==
    LET n == Cardinality({i \in 0..MaxSteps : curr(min, i, drift) <= Micro(max) + 1000})
    IN  [i \in 1..n |-> R(Round1(curr(min, i - 1, drift)), 10)]

\* focals and apers (lines 156-175)
Expanded(data, drift) ==
    IF data.range THEN ExpandRange(data.min, data.max, drift) ELSE <<data.min>>

\* mutation: an aperture tuple flags the entry too
Combinations_flag_any_range(raw, focals, apers) ==
    [k \in 1..(Len(focals) * Len(apers)) |->
        <<raw.model, focals[((k - 1) \div Len(apers)) + 1],
          apers[((k - 1) % Len(apers)) + 1], raw.img_circle,
          raw.focal_data.range \/ raw.aper_data.range>>]

\* lines 177-182: the tuples one raw entry appends to LENS_DATABASE
Combinations(raw, focals, apers) ==
    [k \in 1..(Len(focals) * Len(apers)) |->
        <<raw.model, focals[((k - 1) \div Len(apers)) + 1],
          apers[((k - 1) % Len(apers)) + 1], raw.img_circle,
          raw.focal_data.range>>]

\* one pass of the loop of line 154
ExpandEntry(raw, drift) ==
    Combinations(raw, Expanded(raw.focal_data, drift), Expanded(raw.aper_data, drift))

(***************************************************************************)
(* Angles: None, degrees(atan(t)) carried by t, or a fixed number of       *)
(* degrees.                                                                *)
(***************************************************************************)
NoneAngle == [isnone |-> TRUE, fixed |-> FALSE, v |-> Zero]
AtanDeg(t) == [isnone |-> FALSE, fixed |-> FALSE, v |-> t]
FixedDeg(k) == [isnone |-> FALSE, fixed |-> TRUE, v |-> I(k)]

\* an optional number (fixed_y_center=None)
NoneNum == [given |-> FALSE, v |-> Zero]
Some(x) == [given |-> TRUE, v |-> x]

(***************************************************************************)
(* calculate_metrics (simcam_calc.py:51-173).  A frame e holds the         *)
(* arguments of the call and its locals; every statement of the function   *)
(* is an operator from frames to frames, named after the local it assigns. *)
(* Consecutive statements are grouped into blocks, functions on frames,    *)
(* and calculate_metrics is the composition of the blocks in the order of  *)
(* the source.                                                             *)
(***************************************************************************)
LocalNames ==
    {"bin_factor", "px_size_um", "px_size_mm", "width_px", "height_px",
     "sensor_w", "sensor_h", "raw_fov_w", "raw_fov_h", "eff_fov_w", "eff_fov_h",
     "fov_center", "fov_top", "fov_bottom", "total_cam_height", "res",
     "focus_dist", "coc", "H", "dn", "df", "dof", "base_params", "base_score",
     "qe", "current_score", "bright_pct", "is_valid", "safe_near",
     "flight_dist", "min_h_angle", "max_h_angle", "safe_far", "fov_h_at_near",
     "fov_bottom_z_near", "min_v_rad", "min_v_angle", "fov_h_at_far",
     "fov_top_z_far", "max_v_rad", "max_v_angle"}

\* the frame on entry: the arguments a, every local still unbound
Frame(a) == a @@ [n \in LocalNames |-> "unbound"]

bin_factor(e) == [e EXCEPT !.bin_factor = IF e.binning THEN 2 ELSE 1]

\* mutation: the binned pitch is written back into the sensor dict
px_size_um_into_sensor(e) ==
    [e EXCEPT !.px_size_um = RMul(e.sensor.pixel_size, I(e.bin_factor)),
              !.sensor.pixel_size = RMul(e.sensor.pixel_size, I(e.bin_factor))]

\* mutation: the pixel pitch ignores binning
px_size_um_unbinned(e) == [e EXCEPT !.px_size_um = e.sensor.pixel_size]

px_size_um(e) ==
    [e EXCEPT !.px_size_um = RMul(e.sensor.pixel_size, I(e.bin_factor))]

px_size_mm(e) == [e EXCEPT !.px_size_mm = RDiv(e.px_size_um, I(1000))]
width_px(e) == [e EXCEPT !.width_px = R(e.sensor.width_px, e.bin_factor)]
height_px(e) == [e EXCEPT !.height_px = R(e.sensor.height_px, e.bin_factor)]
sensor_w(e) == [e EXCEPT !.sensor_w = RMul(e.width_px, e.px_size_mm)]
sensor_h(e) == [e EXCEPT !.sensor_h = RMul(e.height_px, e.px_size_mm)]

\* lines 56-62
SensorLocals[e \in Any] ==
    sensor_h(sensor_w(height_px(width_px(px_size_mm(px_size_um(bin_factor(e)))))))

raw_fov_w(e) == [e EXCEPT !.raw_fov_w = RDiv(RMul(e.sensor_w, e.dist), e.focal)]
raw_fov_h(e) == [e EXCEPT !.raw_fov_h = RDiv(RMul(e.sensor_h, e.dist), e.focal)]

eff_fov_w(e) ==
    [e EXCEPT !.eff_fov_w =
        IF e.is_stereo
        THEN IF e.stereo_align = "Horizontal"
             THEN RMax(Zero, RSub(e.raw_fov_w, e.stereo_base))
             ELSE e.raw_fov_w
        ELSE e.raw_fov_w]

\* mutation: the baseline is subtracted whatever the alignment
eff_fov_h_any_align(e) ==
    [e EXCEPT !.eff_fov_h =
        IF e.is_stereo
        THEN RMax(Zero, RSub(e.raw_fov_h, e.stereo_base))
        ELSE e.raw_fov_h]

eff_fov_h(e) ==
    [e EXCEPT !.eff_fov_h =
        IF e.is_stereo
        THEN IF e.stereo_align = "Horizontal"
             THEN e.raw_fov_h
             ELSE RMax(Zero, RSub(e.raw_fov_h, e.stereo_base))
        ELSE e.raw_fov_h]

\* mutation: the centre is always derived from the anchor
fov_center_ignoring_fixed(e) ==
    [e EXCEPT !.fov_center =
        IF e.include_club
        THEN RAdd(R(-1524, 10), RDiv(e.eff_fov_w, I(2)))
        ELSE RAdd(RSub(e.first_pos, R(254, 10)), RDiv(e.eff_fov_w, I(2)))]

fov_center(e) ==
    [e EXCEPT !.fov_center =
        IF e.fixed_y_center.given
        THEN e.fixed_y_center.v
        ELSE IF e.include_club
             THEN RAdd(R(-1524, 10), RDiv(e.eff_fov_w, I(2)))
             ELSE RAdd(RSub(e.first_pos, R(254, 10)), RDiv(e.eff_fov_w, I(2)))]

fov_top(e) == [e EXCEPT !.fov_top = RAdd(e.fov_center, RDiv(e.eff_fov_w, I(2)))]
fov_bottom(e) == [e EXCEPT !.fov_bottom = RSub(e.fov_center, RDiv(e.eff_fov_w, I(2)))]

total_cam_height(e) ==
    [e EXCEPT !.total_cam_height = RAdd(RDiv(e.raw_fov_h, I(2)), e.cam_z_offset)]

\* mutation: the unbinned pixel count is divided by the FOV width
res_full_width(e) == [e EXCEPT !.res = RDiv(I(e.sensor.width_px), e.raw_fov_w)]

res(e) == [e EXCEPT !.res = RDiv(e.width_px, e.raw_fov_w)]

\* lines 64-93
FieldOfView[e \in Any] ==
    res(total_cam_height(fov_bottom(fov_top(fov_center(
        eff_fov_h(eff_fov_w(raw_fov_h(raw_fov_w(e)))))))))

\* line 95 and the clamp of line 96
focus_dist_sum(e) == [e EXCEPT !.focus_dist = RAdd(e.dist, e.focus_offset)]

\* mutation: only a negative sum is replaced
focus_dist_negative_only(e) ==
    IF RLt(e.focus_dist, Zero) THEN [e EXCEPT !.focus_dist = I(1)] ELSE e

focus_dist(e) ==
    IF RLe(e.focus_dist, Zero) THEN [e EXCEPT !.focus_dist = I(1)] ELSE e

coc(e) == [e EXCEPT !.coc = RMul(e.px_size_mm, e.coc_mult)]

H(e) ==
    [e EXCEPT !.H =
        IF RGt(e.f_stop, Zero)
        THEN RDiv(RSq(e.focal), RMul(e.f_stop, e.coc))
        ELSE R(1, 1000)]

\* The exact values of the depth-of-field limits, and of the lengths derived
\* from them by a further division, have numerators beyond TLC's integers;
\* like the float results they stand for they are kept to a fixed
\* precision, 1/1000 mm (operators DofLimit and Mm3).
dn(e) == [e EXCEPT !.dn = DofLimit(e.H, e.focus_dist, 1)]

\* mutation: the far limit reuses the near limit's denominator
df_near_denominator(e) ==
    [e EXCEPT !.df =
        IF RGt(e.H, e.focus_dist)
        THEN DofLimit(e.H, e.focus_dist, 1)
        ELSE I(99999)]

df(e) ==
    [e EXCEPT !.df =
        IF RGt(e.H, e.focus_dist)
        THEN DofLimit(e.H, e.focus_dist, -1)
        ELSE I(99999)]

\* mutation: dof is far - near in the hyperfocal branch too
dof_always_difference(e) == [e EXCEPT !.dof = RSub(e.df, e.dn)]

dof(e) ==
    [e EXCEPT !.dof = IF RGt(e.H, e.focus_dist) THEN RSub(e.df, e.dn) ELSE I(99999)]

\* lines 95-105
DepthOfField[e \in Any] == dof(df(dn(H(coc(focus_dist(focus_dist_sum(e)))))))

\* a score q / (f^2 d^2) is kept as the pair <<q, f^2 d^2>>: the quotient of
\* two scores is formed from the pairs so that intermediate integers stay
\* within TLC's range
base_score(e) ==
    [e EXCEPT !.base_score =
        << RMul(Get(e.base_params.sensor.qe, e.base_params.wavelength,
                    Get(e.base_params.sensor.qe, 810, R(2, 10))),
                RSq(e.base_params.sensor.pixel_size)),
           RMul(RSq(e.base_params.aperture), RSq(e.base_params.distance)) >>]

\* mutation: the quantum efficiency is always read at 810 nm
qe_at_810(e) == [e EXCEPT !.qe = Get(e.sensor.qe, 810, R(2, 10))]

qe(e) ==
    [e EXCEPT !.qe = Get(e.sensor.qe, e.wavelength, Get(e.sensor.qe, 810, R(2, 10)))]

current_score(e) ==
    [e EXCEPT !.current_score =
        <<RMul(e.qe, RSq(e.px_size_um)), RMul(RSq(e.f_stop), RSq(e.dist))>>]

ScoreRatio(c, b) == RMul(RDiv(c[1], b[1]), RDiv(b[2], c[2]))

bright_pct(e) ==
    [e EXCEPT !.bright_pct =
        IF RGt(e.base_score[1], Zero)
        THEN RMul(ScoreRatio(e.current_score, e.base_score), I(100))
        ELSE Zero]

\* lines 108-114
Brightness[e \in Any] == bright_pct(current_score(qe(base_score(e))))

ball_center(e, i) == RAdd(e.first_pos, RMul(I(i), e.spacing))

\* mutation: only the first ball position is tested
is_valid_first_ball(e) ==
    [e EXCEPT !.is_valid =
        IF ~e.ignore_ball_fit
        THEN ~(\/ RLt(RSub(ball_center(e, 0), BALL_RADIUS_MM), e.fov_bottom)
               \/ RGt(RAdd(ball_center(e, 0), BALL_RADIUS_MM), e.fov_top))
        ELSE TRUE]

\* lines 116-122
is_valid(e) ==
    [e EXCEPT !.is_valid =
        IF ~e.ignore_ball_fit
        THEN \A i \in 0..(e.num_pos - 1) :
                ~(\/ RLt(RSub(ball_center(e, i), BALL_RADIUS_MM), e.fov_bottom)
                  \/ RGt(RAdd(ball_center(e, i), BALL_RADIUS_MM), e.fov_top))
        ELSE TRUE]

safe_near(e) == [e EXCEPT !.safe_near = RMax(Zero, RSub(e.dist, e.dn))]

\* line 125 and the clamp of line 126
\* mutation: one spacing per position, the first included
flight_dist_sum_all_positions(e) ==
    [e EXCEPT !.flight_dist = RAdd(e.first_pos, RMul(I(e.num_pos), e.spacing))]

flight_dist_sum(e) ==
    [e EXCEPT !.flight_dist = RAdd(e.first_pos, RMul(I(e.num_pos - 1), e.spacing))]

flight_dist(e) ==
    IF RLe(e.flight_dist, Zero) THEN [e EXCEPT !.flight_dist = I(1)] ELSE e

min_h_angle(e) ==
    [e EXCEPT !.min_h_angle = AtanDeg(RNeg(RDiv(e.safe_near, e.flight_dist)))]

safe_far(e) ==
    [e EXCEPT !.safe_far =
        IF RGt(e.df, I(99999)) THEN I(9999) ELSE RMax(Zero, RSub(e.df, e.dist))]

max_h_angle(e) ==
    [e EXCEPT !.max_h_angle =
        IF RGt(e.df, I(99999))
        THEN FixedDeg(90)
        ELSE AtanDeg(RDiv(e.safe_far, e.flight_dist))]

\* lines 124-134
HorizontalAngles[e \in Any] ==
    max_h_angle(safe_far(min_h_angle(flight_dist(flight_dist_sum(safe_near(e))))))

fov_h_at_near(e) ==
    [e EXCEPT !.fov_h_at_near = Mm3Prod(RDiv(e.sensor_h, e.focal), e.dn)]

\* lines 137-138 and 148-149: the vertical baseline is taken off
less_stereo_base(e, name) ==
    IF e.is_stereo /\ e.stereo_align = "Vertical"
    THEN [e EXCEPT ![name] = RMax(Zero, RSub(e[name], e.stereo_base))]
    ELSE e

fov_bottom_z_near(e) ==
    [e EXCEPT !.fov_bottom_z_near =
        RSub(e.total_cam_height, RDiv(e.fov_h_at_near, I(2)))]

min_v_rad(e) ==
    [e EXCEPT !.min_v_rad = AtanDeg(RDiv(e.fov_bottom_z_near, e.flight_dist))]

min_v_angle(e) == [e EXCEPT !.min_v_angle = e.min_v_rad]

\* lines 136-141
NearEdge[e \in Any] ==
    min_v_angle(min_v_rad(fov_bottom_z_near(
        less_stereo_base(fov_h_at_near(e), "fov_h_at_near"))))

fov_h_at_far(e) ==
    [e EXCEPT !.fov_h_at_far = Mm3Prod(RDiv(e.sensor_h, e.focal), e.df)]

fov_top_z_far(e) ==
    [e EXCEPT !.fov_top_z_far =
        RAdd(e.total_cam_height, RDiv(e.fov_h_at_far, I(2)))]

max_v_rad(e) ==
    [e EXCEPT !.max_v_rad =
        AtanDeg(RDiv(RSub(e.fov_top_z_far, BALL_DIAMETER_MM), e.flight_dist))]

max_v_angle(e) == [e EXCEPT !.max_v_angle = e.max_v_rad]

\* lines 143-152
FarEdge[e \in Any] ==
    max_v_angle(
        IF RGt(e.df, I(50000))
        THEN [e EXCEPT !.max_v_rad = FixedDeg(89), !.fov_top_z_far = I(5000)]
        ELSE max_v_rad(fov_top_z_far(
                less_stereo_base(fov_h_at_far(e), "fov_h_at_far"))))

\* lines 154-155: the four angles are nulled together
Nulled(e) ==
    IF ~e.is_valid /\ ~e.ignore_ball_fit
    THEN [e EXCEPT !.min_h_angle = NoneAngle, !.max_h_angle = NoneAngle,
                   !.min_v_angle = NoneAngle, !.max_v_angle = NoneAngle]
    ELSE e

\* the returned dict (lines 157-173)
Return(e) ==
    [res |-> e.res, dof |-> e.dof, fov_w |-> e.eff_fov_w, fov_h |-> e.eff_fov_h,
     raw_fov_w |-> e.raw_fov_w, raw_fov_h |-> e.raw_fov_h,
     bright |-> e.bright_pct, px_size_mm |-> e.px_size_mm, qe |-> e.qe,
     near_limit |-> e.dn, far_limit |-> e.df,
     min_h_angle |-> e.min_h_angle, max_h_angle |-> e.max_h_angle,
     min_v_angle |-> e.min_v_angle, max_v_angle |-> e.max_v_angle,
     fov_bottom |-> e.fov_bottom, fov_top |-> e.fov_top,
     fov_center |-> e.fov_center,
     total_cam_height |-> e.total_cam_height,
     focus_dist |-> e.focus_dist,
     safe_near_dev |-> e.safe_near, safe_far_dev |-> e.safe_far,
     flight_dist |-> e.flight_dist,
     fov_bottom_z_near |-> e.fov_bottom_z_near,
     fov_top_z_far |-> e.fov_top_z_far,
     min_v_rad |-> e.min_v_rad, max_v_rad |-> e.max_v_rad,
     stereo_base |-> IF e.is_stereo THEN e.stereo_base ELSE Zero,
     stereo_align |-> IF e.is_stereo THEN e.stereo_align ELSE "None"]

\* lines 116-155
AnglesFrame[e \in Any] ==
    Nulled(FarEdge[NearEdge[HorizontalAngles[is_valid(e)]]])

\* lines 116-173
Angles[e \in Any] == Return(AnglesFrame[e])

\* The frame when the return statement is reached.  a is the record of the
\* call's arguments, bp the baseline that line 107 reads from
\* st.session_state.base_params.  The names sensor and base_params of the
\* frame refer to the caller's dicts, so their values in this frame are the
\* values the caller's dicts have after the call.
frame_at_return(a, bp) ==
    AnglesFrame[Brightness[[DepthOfField[FieldOfView[SensorLocals[Frame(a)]]]
                               EXCEPT !.base_params = bp]]]

calculate_metrics(a, bp) == Return(frame_at_return(a, bp))

\* Python raises ZeroDivisionError when a divisor is zero.  The divisors of
\* lines 64-113 that are not literals, in the order of the source; the
\* divisors of the later lines are focal (already met at line 64) and
\* flight_dist (positive after line 126).
Raises(a, bp) ==
    \/ a.focal[1] = 0                                        \* lines 64-65
    \/ RMul(SensorLocals[Frame(a)].sensor_w, a.dist)[1] = 0  \* line 93
    \/ /\ RGt(a.f_stop, Zero)                                \* line 98
       /\ RMul(SensorLocals[Frame(a)].px_size_mm, a.coc_mult)[1] = 0
    \/ LET e == H(coc(focus_dist(focus_dist_sum(SensorLocals[Frame(a)]))))
       IN  RAdd(e.H, e.focus_dist)[1] = 0                    \* line 99
    \/ bp.aperture[1] = 0 \/ bp.distance[1] = 0              \* line 111
    \/ a.f_stop[1] = 0 \/ a.dist[1] = 0                      \* line 113

(***************************************************************************)
(* simcam.py: its own calculate_metrics (234-353), which differs from the  *)
(* one above in the brightness lines 290-294, the catalog and the          *)
(* compatibility filter.                                                   *)
(***************************************************************************)
BASE_PARAMS ==
    [sensor |-> [width_px |-> 1440, height_px |-> 1080,
                 pixel_size |-> R(345, 100), qe |-> (810 :> R(21, 100))],
     focal |-> I(6), aperture |-> R(12, 10), distance |-> I(430),
     wavelength |-> 810]

base_score_simcam ==
    <<RMul(BASE_PARAMS.sensor.qe[810], RSq(BASE_PARAMS.sensor.pixel_size)),
      RMul(RSq(BASE_PARAMS.aperture), RSq(BASE_PARAMS.distance))>>

qe_simcam(e) == [e EXCEPT !.qe = Get(e.sensor.qe, e.wavelength, R(2, 10))]

\* (current_score / base_score) * 100.  The exact percentage of an arbitrary
\* configuration has a numerator beyond TLC's integers, so like dn and df it
\* is kept to a fixed precision: the quotient of the denominators is rounded
\* down to 8 decimals and the percentage to a multiple of 1/1000.
ScorePercent(x, y) ==
    R(MulDivMod(x[1], MulDivMod(y[1], 100000000, y[2])[1], x[2] * 1000)[1], 1000)

bright_pct_simcam(e) ==
    [e EXCEPT !.bright_pct =
        ScorePercent(RDiv(e.current_score[1], base_score_simcam[1]),
                     RDiv(base_score_simcam[2], e.current_score[2]))]

\* lines 290-294
Brightness_simcam[e \in Any] == bright_pct_simcam(current_score(qe_simcam(e)))

calculate_metrics_simcam(a) ==
    Angles[Brightness_simcam[DepthOfField[FieldOfView[SensorLocals[Frame(a)]]]]]

\* The frame of a call up to the statements that assign the entries a
\* caller reads.  focus_error_func reads near_limit and far_limit (dn and
\* df, lines 56-62 and 95-105); the loop body of "Optimize System" reads
\* dof, min_h_angle and min_v_angle, which no statement of lines 107-114
\* and 143-152 assigns.
calculate_metrics_limits(a) == DepthOfField[SensorLocals[Frame(a)]]

calculate_metrics_near(a) ==
    Nulled(NearEdge[HorizontalAngles[is_valid(
        DepthOfField[FieldOfView[SensorLocals[Frame(a)]]])]])

\* Entries of the expanded LENS_DATABASE, in catalog order:
\* <<model, focal, aperture, image circle, is_varifocal>>
LENS_DATABASE ==
    << <<"Varifocal 2.8-12mm", R(28, 10), R(16, 10), I(9), TRUE>>,
       <<"Varifocal 2.8-12mm", I(6), R(16, 10), I(9), TRUE>>,
       <<"Arducam LN081", R(45, 10), I(2), I(9), FALSE>>,
       <<"Arducam M2306ZM13", I(6), I(2), R(77, 10), FALSE>>,
       <<"Arducam M2508ZH02", I(8), I(2), R(71, 10), FALSE>>,
       <<"Arducam CS 6mm F1.2", I(6), R(12, 10), I(8), FALSE>>,
       <<"Arducam CS 6mm", I(6), R(14, 10), R(77, 10), FALSE>>,
       <<"CIL207", R(8, 10), R(19, 10), I(4), FALSE>>,
       <<"CIL215", R(15, 10), I(2), R(42, 10), FALSE>> >>

\* get_sensor_diagonal_mm squared (the square root is not taken: the only
\* use of the diagonal is the comparison in get_compatible_lenses)
sensor_diagonal_sq(sensor) ==
    LET w_mm == RMul(I(sensor.width_px), RDiv(sensor.pixel_size, I(1000)))
        h_mm == RMul(I(sensor.height_px), RDiv(sensor.pixel_size, I(1000)))
    IN  RAdd(RSq(w_mm), RSq(h_mm))

\* l[3] < diag * (pct / 100), both sides non-negative
BelowThreshold(l, sensor, min_coverage_pct) ==
    RLt(RSq(l[4]), RMul(sensor_diagonal_sq(sensor), RSq(R(min_coverage_pct, 100))))

\* mutation: the varifocal test is left out
get_compatible_lenses_keeping_varifocal(sensor, min_coverage_pct, include_varifocal) ==
    SelectSeq(LENS_DATABASE,
              LAMBDA l : ~BelowThreshold(l, sensor, min_coverage_pct))

\* the loop of lines 198-205 keeps, in catalog order, the lenses that reach
\* neither continue
get_compatible_lenses(sensor, min_coverage_pct, include_varifocal) ==
    SelectSeq(LENS_DATABASE,
              LAMBDA l : /\ ~BelowThreshold(l, sensor, min_coverage_pct)
                         /\ ~(l[5] /\ ~include_varifocal))

(***************************************************************************)
(* golden_section_search (simcam.py:217-231).  The iterates a, b, c, d are *)
(* kept in tenths of a millimetre and 1/gr is taken as 1000/1618.  The     *)
(* objective is a record: the closure focus_error_func with the values it  *)
(* captures.                                                               *)
(***************************************************************************)
\* w / gr in tenths
OverGr(x) == IF x >= 0 THEN (x * 1000) \div 1618 ELSE -(((-x) * 1000) \div 1618)

\* lines 754-756, mm the result of the call at line 751
focus_error(mm, dist) ==
    IF RGt(mm.df, I(99999)) THEN Zero
    ELSE RAbs(RSub(RSub(dist, mm.dn), RSub(mm.df, dist)))

\* focus_error_func(off_val), off_val = x / 10 (simcam.py:750-756)
focus_error_func(obj, x) ==
    focus_error(calculate_metrics_limits([obj.args EXCEPT !.focus_offset = R(x, 10)]),
                obj.args.dist)

\* f(x): the objective is focus_error_func or, for a record with a field k,
\* the parabola (x - k)^2, k in tenths like x, or, for a record with the
\* fields mul and mod, the sawtooth (mul * x) mod mod, which has many
\* minima (mod = 1: the constant 0)
f(obj, x) ==
    IF "k" \in DOMAIN obj THEN R((x - obj.k) * (x - obj.k), 100)
    ELSE IF "mod" \in DOMAIN obj THEN I((obj.mul * x) % obj.mod)
    ELSE focus_error_func(obj, x)

\* lines 220-221: the loop variables on entry
gss_enter(a, b) ==
    [a |-> a, b |-> b, c |-> b - OverGr(b - a), d |-> a + OverGr(b - a)]

\* mutation: the upper end moves to c
gss_pass_cutting_at_c(obj, s) ==
    IF RLt(f(obj, s.c), f(obj, s.d))
    THEN [a |-> s.a, b |-> s.c, c |-> s.c - OverGr(s.c - s.a), d |-> s.c]
    ELSE [a |-> s.c, b |-> s.b, c |-> s.d, d |-> s.c + OverGr(s.b - s.c)]

\* lines 223-230: one pass of the loop body
gss_pass(obj, s) ==
    IF RLt(f(obj, s.c), f(obj, s.d))
    THEN [a |-> s.a, b |-> s.d, c |-> s.d - OverGr(s.d - s.a), d |-> s.c]
    ELSE [a |-> s.c, b |-> s.b, c |-> s.d, d |-> s.c + OverGr(s.b - s.c)]

\* mutation: the interval keeps the side of the larger value
RECURSIVE gss_loop_keeping_worse(_, _, _)
gss_loop_keeping_worse(obj, s, tol) ==
    IF Abs(s.b - s.a) > tol
    THEN IF RLt(f(obj, s.d), f(obj, s.c))
         THEN gss_loop_keeping_worse(
                  obj, [a |-> s.a, b |-> s.d, c |-> s.d - OverGr(s.d - s.a), d |-> s.c], tol)
         ELSE gss_loop_keeping_worse(
                  obj, [a |-> s.c, b |-> s.b, c |-> s.d, d |-> s.c + OverGr(s.b - s.c)], tol)
    ELSE R(s.b + s.a, 20)

\* lines 222-231
RECURSIVE gss_loop(_, _, _)
gss_loop(obj, s, tol) ==
    IF Abs(s.b - s.a) > tol
    THEN gss_loop(obj, gss_pass(obj, s), tol)
    ELSE R(s.b + s.a, 20)

\* a, b and tol in millimetres
golden_section_search(obj, a, b, tol) ==
    gss_loop(obj, gss_enter(a * 10, b * 10), tol * 10)

(***************************************************************************)
(* The script run of simcam.py: sidebar (584-643), session defaults        *)
(* (647-681), "Optimize System" (700-795) and the final calculation (932). *)
(***************************************************************************)
\* rotate_90 (simcam.py:589-592): a copy with width and height swapped
RotatedCopy(sensor) ==
    [sensor EXCEPT !.width_px = sensor.height_px, !.height_px = sensor.width_px]

\* Lines 585-592 on Python's objects.  objs are the dicts that exist, the
\* first Len(SENSORS) of them the values of SENSORS; sensor is the index of
\* the dict the local name sensor refers to.
sensor_copy(h) ==
    [objs |-> Append(h.objs, h.objs[h.sensor]), sensor |-> Len(h.objs) + 1]

\* line 592: item assignment on the dict sensor refers to
swap_width_height(h) ==
    [h EXCEPT !.objs[h.sensor] = RotatedCopy(h.objs[h.sensor])]

\* mutation: the dict is rotated in place, without sensor.copy()
rotate_90_in_place(h) == swap_width_height(h)

\* lines 591-592
rotate_90(h) == swap_width_height(sensor_copy(h))

SelectedSensor(wd) ==
    IF wd.rotate_90 THEN RotatedCopy(SENSORS[wd.sensor_name])
    ELSE SENSORS[wd.sensor_name]

\* tan(0.5 degrees) = 0.0087268..., and tan(x + 0.5 degrees) from tan x
Tan05 == R(8727, 1000000)
TanPlusHalf(t) == RDiv(RAdd(t, Tan05), RSub(I(1), RMul(t, Tan05)))

\* floor(sqrt(n)) for n >= 0
RECURSIVE ISqrtIn(_, _, _)
ISqrtIn(n, lo, hi) ==
    IF lo >= hi THEN lo
    ELSE LET mid == (lo + hi + 1) \div 2
         IN  IF mid * mid <= n THEN ISqrtIn(n, mid, hi) ELSE ISqrtIn(n, lo, mid - 1)

ISqrt(n) == ISqrtIn(n, 0, IF n < 46340 THEN n ELSE 46340)

Min2(x, y) == IF x <= y THEN x ELSE y

\* stereo_base_val (simcam.py:595, 615-616)
stereo_base_val(st, wd) ==
    IF wd.is_stereo THEN RInt(RDiv(I(st.distance), wd.stereo_ratio)) ELSE 0

\* lines 670-676: eff_fov_w of the club state check
club_eff_fov_w[st \in Any, wd \in Any] ==
    LET bf == IF wd.use_binning THEN 2 ELSE 1
        px_mm == RDiv(RMul(SelectedSensor(wd).pixel_size, I(bf)), I(1000))
        sw == RMul(R(SelectedSensor(wd).width_px, bf), px_mm)
        raw == RDiv(RMul(sw, I(st.distance)), st.focal)
    IN  IF wd.is_stereo /\ wd.stereo_align = "Horizontal"
        THEN RMax(Zero, RSub(raw, I(stereo_base_val(st, wd))))
        ELSE raw

\* lines 678-681
club_dist_parallel[eff \in Any, wd \in Any] ==
    IF wd.include_club
    THEN RInt(RAdd(I(-127), RDiv(eff, I(2))))
    ELSE RInt(RAdd(RSub(wd.first_pos, R(254, 10)), RDiv(eff, I(2))))

\* lines 667-681: a change of the club checkbox re-centres dist_parallel
ClubStateCheck(st, wd) ==
    IF st.last_club_state # wd.include_club
    THEN [st EXCEPT !.last_club_state = wd.include_club,
                    !.dist_parallel = club_dist_parallel[club_eff_fov_w[st, wd], wd]]
    ELSE st

\* the arguments every call of the script shares (wavelength 810)
CallArgs(wd, focal, f_stop, dist, focus_offset, cam_z, y_center, ignore_fit, base) ==
    [sensor |-> SelectedSensor(wd), binning |-> wd.use_binning, wavelength |-> 810,
     focal |-> focal, f_stop |-> f_stop, dist |-> dist,
     include_club |-> wd.include_club, num_pos |-> wd.num_pos,
     first_pos |-> wd.first_pos, spacing |-> wd.spacing,
     focus_offset |-> focus_offset, coc_mult |-> wd.coc_mult,
     cam_z_offset |-> cam_z, fixed_y_center |-> Some(y_center),
     ignore_ball_fit |-> ignore_fit, is_stereo |-> wd.is_stereo,
     stereo_base |-> base, stereo_align |-> wd.stereo_align]

\* vals (simcam.py:932-934)
Render(st, wd) ==
    calculate_metrics_simcam(
        CallArgs(wd, st.focal, st.aperture, I(st.distance), I(st.focus_offset),
                 I(st.cam_z), I(st.dist_parallel), FALSE,
                 I(stereo_base_val(st, wd))))

\* lines 710-734: the largest distance meeting both targets, capped at 1000
d_res(l, wd) ==
    RDiv(l[2], RMul(RDiv(RMul(SelectedSensor(wd).pixel_size,
                              I(IF wd.use_binning THEN 2 ELSE 1)), I(1000)),
                    wd.target_res))

target_score(wd) ==
    <<RMul(RDiv(wd.target_bright, I(100)), base_score_simcam[1]), base_score_simcam[2]>>

\* int(d_bright_sq), lines 726-727
d_bright_sq(l, wd) ==
    LET qe810 == Get(SelectedSensor(wd).qe, 810, R(2, 10))
        px_um == RMul(SelectedSensor(wd).pixel_size, I(IF wd.use_binning THEN 2 ELSE 1))
    IN  MulFloor(RDiv(RMul(qe810, RSq(px_um)), target_score(wd)[1]),
                 RDiv(target_score(wd)[2], RSq(l[3])))

\* int(d_bright): the integer part of the square root, 10000 without a target
d_bright_int(l, wd) ==
    IF RGt(target_score(wd)[1], Zero) THEN ISqrt(d_bright_sq(l, wd)) ELSE 10000

\* mutation: the brightness limit is left out of the minimum
max_valid_dist_without_brightness(l, wd) == Min2(RInt(d_res(l, wd)), 1000)

max_valid_dist(l, wd) ==
    Min2(Min2(RInt(d_res(l, wd)), d_bright_int(l, wd)), 1000)

trial_base(dist, wd) ==
    IF wd.is_stereo THEN RInt(RDiv(I(dist), wd.stereo_ratio)) ELSE 0

\* lines 740-747
found_parallel_for_lens(l, dist, wd) ==
    LET bf == IF wd.use_binning THEN 2 ELSE 1
        px_mm == RDiv(RMul(SelectedSensor(wd).pixel_size, I(bf)), I(1000))
        sensor_w_inner == RMul(R(SelectedSensor(wd).width_px, bf), px_mm)
        raw == RDiv(RMul(sensor_w_inner, I(dist)), l[2])
        eff_fov_w_inner ==
            IF wd.is_stereo /\ wd.stereo_align = "Horizontal"
            THEN RMax(Zero, RSub(raw, I(trial_base(dist, wd))))
            ELSE raw
    IN  IF wd.include_club
        THEN RAdd(I(-127), RDiv(eff_fov_w_inner, I(2)))
        ELSE RAdd(RSub(wd.first_pos, R(254, 10)), RDiv(eff_fov_w_inner, I(2)))

\* mutation: the calls of the loop pass ignore_ball_fit=False
LensArgs_testing_ball_fit(l, dist, wd, focus_offset, cam_z) ==
    CallArgs(wd, l[2], l[3], I(dist), focus_offset, cam_z,
             found_parallel_for_lens(l, dist, wd), FALSE, I(trial_base(dist, wd)))

\* the calls at lines 751, 761 and 770 for lens l at distance dist
LensArgs(l, dist, wd, focus_offset, cam_z) ==
    CallArgs(wd, l[2], l[3], I(dist), focus_offset, cam_z,
             found_parallel_for_lens(l, dist, wd), TRUE, I(trial_base(dist, wd)))

best_off(l, dist, wd) ==
    RInt(golden_section_search([args |-> LensArgs(l, dist, wd, Zero, Zero)],
                               -400, 200, 1))

\* lines 765-766: tan(radians(current_min_v - target_min_vla)), from the
\* tangents t of current_min_v and target of target_min_vla
tan_deg_diff(t, target) ==
    RDiv(RSub(t, target), RAdd(I(1), RMul(t, target)))

\* lines 760-768: int(0 - tan(radians(deg_diff)) * flight_d); int truncates
\* toward zero, so the magnitude is the integer part of |tan| * |flight_d|
optimal_cam_z(l, dist, wd, off) ==
    LET x == tan_deg_diff(calculate_metrics_near(
                              LensArgs(l, dist, wd, I(off), Zero)).min_v_angle.v,
                          wd.target_min_vla.tan)
        flight_d == RAdd(wd.first_pos, RMul(I(wd.num_pos - 1), wd.spacing))
        mag == MulFloor(RAbs(x), RAbs(flight_d))
    IN  IF (x[1] < 0) = (flight_d[1] < 0) THEN -mag ELSE mag

\* mutation: the angle test of line 774 is left out
Accepted_any_angle(final_m, wd) == ~final_m.min_h_angle.isnone

\* line 774
Accepted(final_m, wd) ==
    /\ ~final_m.min_h_angle.isnone
    /\ RLe(final_m.min_v_angle.v, TanPlusHalf(wd.target_min_vla.tan))

\* lines 774-780 for one lens, given best_off, optimal_cam_z and final_m:
\* the entry appended to valid_configs, or <<>> when final_m fails line 774
Appended(final_m, l, dist, wd, off, cam_z) ==
    IF Accepted(final_m, wd)
    THEN << [focal |-> l[2], aperture |-> l[3], dist |-> dist,
             offset |-> off, cam_z |-> cam_z,
             parallel |-> found_parallel_for_lens(l, dist, wd),
             dof |-> final_m.dof, model |-> l[1]] >>
    ELSE <<>>

\* lines 749-780 for one lens that passed the distance test.  The steps are
\* functions of the values computed before them, as the statements of the
\* loop body are.
Candidate(l, dist, wd) ==
    LET WithOffset[off \in Int] ==
            LET WithCamZ[cam_z \in Int] ==
                    Appended(calculate_metrics_near(
                                 LensArgs(l, dist, wd, I(off), I(cam_z))),
                             l, dist, wd, off, cam_z)
            IN  WithCamZ[optimal_cam_z(l, dist, wd, off)]
    IN  WithOffset[best_off(l, dist, wd)]

\* the loop at lines 706-780
RECURSIVE CollectConfigs(_, _)
CollectConfigs(lenses, wd) ==
    IF lenses = <<>> THEN <<>>
    ELSE LET l == Head(lenses)
             d == max_valid_dist(l, wd)
             rest == CollectConfigs(Tail(lenses), wd)
         IN  IF d >= wd.target_min_dist
             THEN Candidate(l, d, wd) \o rest
             ELSE rest

\* mutation: the sort is ascending (reverse=True left out)
KeyLess_ascending(x, y) == RLt(y.dof, x.dof) \/ (y.dof = x.dof /\ y.dist < x.dist)

\* key (dof, dist) of line 783
KeyLess(x, y) == RLt(x.dof, y.dof) \/ (x.dof = y.dof /\ x.dist < y.dist)

\* list.sort(key, reverse=True): descending and stable
RECURSIVE InsertDesc(_, _)
InsertDesc(x, sorted) ==
    IF sorted = <<>> THEN <<x>>
    ELSE IF KeyLess(Head(sorted), x) THEN <<x>> \o sorted
    ELSE <<Head(sorted)>> \o InsertDesc(x, Tail(sorted))

RECURSIVE SortDesc(_)
SortDesc(configs) ==
    IF configs = <<>> THEN <<>>
    ELSE InsertDesc(configs[Len(configs)], SortDesc(SubSeq(configs, 1, Len(configs) - 1)))

\* the text of st.error at line 795, after its cross-mark emoji
NoConfigMsg == "No configuration found satisfying Targets."

\* mutation: without a valid configuration the defaults are restored
AfterOptimize_restoring_defaults(st, sorted) ==
    IF sorted # <<>>
    THEN [st EXCEPT !.focal = sorted[1].focal,
                    !.aperture = sorted[1].aperture,
                    !.distance = sorted[1].dist,
                    !.focus_offset = sorted[1].offset,
                    !.cam_z = sorted[1].cam_z,
                    !.dist_parallel = RInt(sorted[1].parallel)]
    ELSE [st EXCEPT !.focal = I(6), !.aperture = R(12, 10), !.distance = 430,
                    !.focus_offset = 0, !.cam_z = 0]

\* lines 782-795: the winner is written to the session state
AfterOptimize(st, sorted) ==
    IF sorted # <<>>
    THEN [st EXCEPT !.focal = sorted[1].focal,
                    !.aperture = sorted[1].aperture,
                    !.distance = sorted[1].dist,
                    !.focus_offset = sorted[1].offset,
                    !.cam_z = sorted[1].cam_z,
                    !.dist_parallel = RInt(sorted[1].parallel)]
    ELSE st

\* line 712 divides by px_mm * target_res for the first compatible lens
OptimizeRaises(wd) ==
    /\ get_compatible_lenses(SelectedSensor(wd), wd.min_coverage_pct,
                             wd.include_varifocal) # <<>>
    /\ wd.target_res = Zero

DefaultWidgets ==
    [sensor_name |-> 1, use_binning |-> FALSE, rotate_90 |-> FALSE,
     is_stereo |-> FALSE, stereo_align |-> "Horizontal", stereo_ratio |-> I(5),
     target_res |-> I(4), target_bright |-> I(80), target_min_dist |-> 254,
     target_min_vla |-> [deg |-> 0, tan |-> Zero], coc_mult |-> I(2),
     include_club |-> FALSE, num_pos |-> 2, first_pos |-> R(1524, 10),
     spacing |-> I(64), min_coverage_pct |-> 90, include_varifocal |-> FALSE]

\* what the user may set the sidebar and the coverage widgets to
WidgetChoices ==
    { DefaultWidgets,
      [DefaultWidgets EXCEPT !.sensor_name = 2],
      [DefaultWidgets EXCEPT !.target_res = I(1000)],
      [DefaultWidgets EXCEPT !.target_min_dist = 420],
      [DefaultWidgets EXCEPT !.sensor_name = 2, !.target_min_dist = 420],
      [DefaultWidgets EXCEPT !.include_varifocal = TRUE],
      [DefaultWidgets EXCEPT !.target_res = Zero],
      [DefaultWidgets EXCEPT !.target_bright = Zero],
      [DefaultWidgets EXCEPT !.include_club = TRUE],
      [DefaultWidgets EXCEPT !.use_binning = TRUE, !.rotate_90 = TRUE],
      [DefaultWidgets EXCEPT !.is_stereo = TRUE, !.num_pos = 3],
      [DefaultWidgets EXCEPT !.sensor_name = 2, !.use_binning = TRUE,
                             !.coc_mult = I(3), !.target_res = R(1, 2),
                             !.target_bright = Zero],
      [DefaultWidgets EXCEPT !.target_min_vla = [deg |-> -20, tan |-> R(-364, 1000)]],
      [DefaultWidgets EXCEPT !.first_pos = I(50), !.spacing = I(20)] }

\* lines 701-783: valid_configs after the loop and the sort
Search(wd) ==
    IF OptimizeRaises(wd) THEN <<>>
    ELSE SortDesc(CollectConfigs(
            get_compatible_lenses(SelectedSensor(wd), wd.min_coverage_pct,
                                  wd.include_varifocal), wd))

\* The handler reads the widgets and the catalog only, so valid_configs is
\* a function of the widget values: it is tabulated for the widget values
\* of WidgetChoices.
SearchTable == { <<wd, Search(wd)>> : wd \in WidgetChoices }

SearchResult(wd) == (CHOOSE p \in SearchTable : p[1] = wd)[2]

\* lines 647-664
InitSS ==
    LET def_fov_w == RDiv(RMul(RMul(I(IMX296.width_px),
                                    RDiv(IMX296.pixel_size, I(1000))), I(430)), I(6))
    IN  [focal |-> I(6), aperture |-> R(12, 10), distance |-> 430,
         dist_parallel |-> RInt(RAdd(I(127), RDiv(def_fov_w, I(2)))),
         focus_offset |-> 0, cam_z |-> 0, last_club_state |-> FALSE]

Init ==
    /\ ss = InitSS
    /\ w = DefaultWidgets
    /\ valid_configs = <<>>
    /\ msg = ""
    /\ vals = Render(InitSS, DefaultWidgets)
    /\ run = "init"
    /\ args = <<>> /\ m = <<>> /\ called = FALSE
    /\ base_params = DEFAULT_BASE_PARAMS

\* the user changes sidebar widgets; the script reruns without a button
SetWidgets ==
    /\ \E wd \in WidgetChoices \ {w} :
        /\ w' = wd
        /\ ss' = ClubStateCheck(ss, wd)
        /\ vals' = Render(ss', wd)
    /\ valid_configs' = <<>>
    /\ msg' = ""
    /\ run' = "widgets"
    /\ UNCHANGED <<args, m, called, base_params>>

\* the "Optimize System" button (simcam.py:700-795) and the rerun after it
OptimizeSystem ==
    /\ run' = "optimize_system"
    /\ valid_configs' = SearchResult(w)
    /\ IF OptimizeRaises(w)
       THEN /\ msg' = "ZeroDivisionError"
            /\ ss' = ClubStateCheck(ss, w)
            /\ vals' = vals
       ELSE /\ msg' = IF valid_configs' # <<>> THEN "" ELSE NoConfigMsg
            /\ ss' = AfterOptimize(ClubStateCheck(ss, w), valid_configs')
            /\ vals' = Render(ss', w)
    /\ UNCHANGED <<w, args, m, called, base_params>>

Next == SetWidgets \/ OptimizeSystem

Spec == Init /\ [][Next]_vars

(***************************************************************************)
(* The single-axis buttons of simcam.py: "Optimize f-stop Only" (826-842), *)
(* "Optimize Dist Only" (847-869) and "Optimize Focus Only" (886-902).     *)
(* The sliders hold focal, aperture and distance; a handler that ends in   *)
(* st.rerun() is followed by the script run that computes vals.            *)
(***************************************************************************)
\* px_mm of lines 827 and 849
px_mm_of(wd) ==
    RDiv(RMul(SelectedSensor(wd).pixel_size, I(IF wd.use_binning THEN 2 ELSE 1)),
         I(1000))

compatible_lenses(wd) ==
    get_compatible_lenses(SelectedSensor(wd), wd.min_coverage_pct,
                          wd.include_varifocal)

\* lines 828-833: f_sq, the square of max_f
f_sq(st, wd) ==
    LET qe810 == Get(SelectedSensor(wd).qe, 810, R(2, 10))
        px_um == RMul(SelectedSensor(wd).pixel_size, I(IF wd.use_binning THEN 2 ELSE 1))
    IN  RMul(RDiv(RMul(qe810, RSq(px_um)), target_score(wd)[1]),
             RDiv(target_score(wd)[2], RSq(I(st.distance))))

\* line 837, as a set
valid_apertures(wd) ==
    { compatible_lenses(wd)[i][3] : i \in 1..Len(compatible_lenses(wd)) }

\* line 838: x <= sqrt(f_sq) for x > 0
valid_subset(st, wd) == { x \in valid_apertures(wd) : RLe(RSq(x), f_sq(st, wd)) }

RMaxOf(S) == CHOOSE x \in S : \A y \in S : RLe(y, x)
RMinOf(S) == CHOOSE x \in S : \A y \in S : RLe(x, y)

\* line 832 divides by target_score * distance^2; line 841 indexes
\* valid_apertures[0]
FstopRaises(st, wd) ==
    IF wd.target_bright = Zero THEN "ZeroDivisionError"
    ELSE IF valid_apertures(wd) = {} THEN "IndexError"
    ELSE ""

\* lines 840-841
AfterOptimizeFstop(st, wd) ==
    IF valid_subset(st, wd) # {}
    THEN [st EXCEPT !.aperture = RMaxOf(valid_subset(st, wd))]
    ELSE [st EXCEPT !.aperture = RMinOf(valid_apertures(wd))]

\* line 850
max_res_dist(st, wd) == RInt(RDiv(st.focal, RMul(px_mm_of(wd), wd.target_res)))

\* line 853
start_d(st, wd) == Min2(max_res_dist(st, wd), 1000)

\* the call of lines 858-860 for the trial distance d
DistTrialArgs(st, wd, d) ==
    CallArgs(wd, st.focal, st.aperture, I(d), I(st.focus_offset), Zero,
             I(st.dist_parallel), TRUE, I(trial_base(d, wd)))

\* base_chk['bright']; no statement outside lines 234-240 and 290-294
\* assigns what it is computed from
bright_at(st, wd, d) ==
    Brightness_simcam[SensorLocals[Frame(DistTrialArgs(st, wd, d))]].bright_pct

\* mutation: the scan goes down in steps of 1
scanned_every_mm(st, wd) == 101..start_d(st, wd)

\* range(start_d, 100, -10)
scanned(st, wd) ==
    { d \in 101..start_d(st, wd) : (start_d(st, wd) - d) % 10 = 0 }

\* lines 852-864: the loop runs downward and stops at the first distance
\* that is bright enough, the largest such distance of the range; 0 stands
\* for None
best_d(st, wd) ==
    LET passing == { d \in scanned(st, wd) :
                        RGe(bright_at(st, wd, d), wd.target_bright) }
    IN  IF passing = {} THEN 0
        ELSE CHOOSE d \in passing : \A e \in passing : e <= d

DistMsg == "Cannot satisfy constraints."

\* lines 866-867
AfterOptimizeDist(st, wd) ==
    IF best_d(st, wd) # 0 /\ best_d(st, wd) >= wd.target_min_dist
    THEN [st EXCEPT !.distance = best_d(st, wd)]
    ELSE st

\* the call of lines 890-892 for the offset off
FocusTrialArgs(st, wd, off) ==
    CallArgs(wd, st.focal, st.aperture, I(st.distance), I(off), Zero,
             I(st.dist_parallel), TRUE, I(stereo_base_val(st, wd)))

\* lines 893-896
diff_at(st, wd, off) ==
    focus_error(calculate_metrics_limits(FocusTrialArgs(st, wd, off)),
                I(st.distance))

\* mutation: any error counts as an improvement on the start
focus_scan_start_unbounded == [best_off |-> 0, best_diff |-> I(999999)]

\* lines 887-888
focus_scan_start == [best_off |-> 0, best_diff |-> I(9999)]

\* lines 897-899 for one offset
focus_scan_step(acc, st, wd, off) ==
    IF RLt(diff_at(st, wd, off), acc.best_diff)
    THEN [best_off |-> off, best_diff |-> diff_at(st, wd, off)]
    ELSE acc

\* the passes lo..hi of the loop of line 889, pass i with off = -400 + 5i,
\* in order: the first half, then the second
focus_scan[x \in Any] ==
    IF x.lo = x.hi THEN focus_scan_step(x.acc, x.st, x.wd, -400 + 5 * x.lo)
    ELSE focus_scan[[x EXCEPT
            !.acc = focus_scan[[x EXCEPT !.hi = (x.lo + x.hi) \div 2]],
            !.lo = ((x.lo + x.hi) \div 2) + 1]]

\* lines 887-900: range(-400, 200, 5) has 120 values
AfterOptimizeFocus(st, wd) ==
    [st EXCEPT !.focus_offset =
        focus_scan[[acc |-> focus_scan_start,
                    st |-> st, wd |-> wd, lo |-> 0, hi |-> 119]].best_off]

\* what the sliders of lines 809, 824 and 845 may be set to
SliderChoices ==
    { [InitSS EXCEPT !.focal = fo, !.aperture = ap, !.distance = di] :
      fo \in {I(6)}, ap \in {R(12, 10), R(14, 10), I(16)},
      di \in {430, 1000} }

InitAxis ==
    /\ w \in WidgetChoices
    /\ ss \in { [st EXCEPT !.last_club_state = w.include_club] : st \in SliderChoices }
    /\ vals = Render(ss, w)
    /\ valid_configs = <<>>
    /\ msg = ""
    /\ run = "init"
    /\ args = <<>> /\ m = <<>> /\ called = FALSE
    /\ base_params = DEFAULT_BASE_PARAMS

OptimizeFstopOnly ==
    /\ run' = "optimize_fstop"
    /\ msg' = FstopRaises(ss, w)
    /\ IF FstopRaises(ss, w) # ""
       THEN UNCHANGED <<ss, vals>>
       ELSE /\ ss' = AfterOptimizeFstop(ss, w)
            /\ vals' = Render(ss', w)
    /\ UNCHANGED <<w, valid_configs, args, m, called, base_params>>

OptimizeDistOnly ==
    /\ run' = "optimize_dist"
    /\ IF w.target_res = Zero
       THEN /\ msg' = "ZeroDivisionError"
            /\ UNCHANGED <<ss, vals>>
       ELSE /\ ss' = AfterOptimizeDist(ss, w)
            /\ msg' = IF best_d(ss, w) # 0 /\ best_d(ss, w) >= w.target_min_dist
                      THEN "" ELSE DistMsg
            /\ vals' = Render(ss', w)
    /\ UNCHANGED <<w, valid_configs, args, m, called, base_params>>

OptimizeFocusOnly ==
    /\ run' = "optimize_focus"
    /\ ss' = AfterOptimizeFocus(ss, w)
    /\ msg' = ""
    /\ vals' = Render(ss', w)
    /\ UNCHANGED <<w, valid_configs, args, m, called, base_params>>

NextAxis == OptimizeFstopOnly \/ OptimizeDistOnly \/ OptimizeFocusOnly

SpecAxis == InitAxis /\ [][NextAxis]_vars

(***************************************************************************)
(* Direct calls of calculate_metrics: the arguments are drawn from         *)
(* bounded sets of values the sliders and the catalog can supply.          *)
(***************************************************************************)
MaxNumPos == 3

StereoChoices ==
    { [is_stereo |-> FALSE, stereo_base |-> Zero, stereo_align |-> "Horizontal"],
      [is_stereo |-> FALSE, stereo_base |-> I(86), stereo_align |-> "Vertical"],
      [is_stereo |-> TRUE, stereo_base |-> I(86), stereo_align |-> "Vertical"],
      [is_stereo |-> TRUE, stereo_base |-> I(500), stereo_align |-> "Horizontal"] }

\* fixed_y_center and include_club
PlacementChoices ==
    { [fixed_y_center |-> NoneNum, include_club |-> FALSE],
      [fixed_y_center |-> NoneNum, include_club |-> TRUE],
      [fixed_y_center |-> Some(I(265)), include_club |-> FALSE] }

OtherBaseline ==
    [sensor |-> OV9281, focal |-> I(8), aperture |-> I(2),
     distance |-> I(300), wavelength |-> 850]

Baselines == {DEFAULT_BASE_PARAMS, OtherBaseline}

\* sensor and focal length
RigChoices ==
    { [sensor |-> IMX296, focal |-> I(6)],
      [sensor |-> IMX296, focal |-> R(28, 10)],
      [sensor |-> OV9281, focal |-> I(6)] }

ArgSpace ==
    { [sensor |-> rig.sensor, binning |-> b, wavelength |-> wl,
       focal |-> rig.focal,
       f_stop |-> fs, dist |-> d, include_club |-> pl.include_club,
       num_pos |-> n, first_pos |-> R(1524, 10), spacing |-> I(64),
       focus_offset |-> fo, coc_mult |-> I(2), cam_z_offset |-> Zero,
       fixed_y_center |-> pl.fixed_y_center, ignore_ball_fit |-> ig,
       is_stereo |-> st.is_stereo, stereo_base |-> st.stereo_base,
       stereo_align |-> st.stereo_align] :
      rig \in RigChoices, b \in BOOLEAN, wl \in {810, 850},
      fs \in {R(12, 10), I(2), I(16)},
      d \in {I(430), I(300)}, pl \in PlacementChoices, n \in 2..MaxNumPos,
      fo \in {Zero, I(-100)}, ig \in BOOLEAN, st \in StereoChoices }

\* dist and focus_offset: a sum above 1, zero, negative, and between 0 and 1
DistChoices ==
    { [dist |-> I(430), focus_offset |-> Zero],
      [dist |-> Zero, focus_offset |-> Zero],
      [dist |-> I(-430), focus_offset |-> Zero],
      [dist |-> I(430), focus_offset |-> I(-430)],
      [dist |-> I(430), focus_offset |-> I(-500)],
      [dist |-> R(4305, 10), focus_offset |-> I(-430)] }

\* first_pos and spacing: a flight distance above 1, zero or negative, and
\* between 0 and 1
FlightChoices ==
    { [first_pos |-> R(1524, 10), spacing |-> I(64)],
      [first_pos |-> R(1524, 10), spacing |-> R(-1524, 10)],
      [first_pos |-> R(645, 10), spacing |-> I(-64)],
      [first_pos |-> R(1, 4), spacing |-> R(1, 4)] }

\* calls at the edges of the numeric domain: zero and negative focal, f_stop
\* and dist, and the sums that lines 96 and 126 test
EdgeArgs ==
    { [sensor |-> IMX296, binning |-> FALSE, wavelength |-> 810,
       focal |-> foc, f_stop |-> fs, dist |-> dd.dist,
       include_club |-> FALSE, num_pos |-> n,
       first_pos |-> fl.first_pos, spacing |-> fl.spacing,
       focus_offset |-> dd.focus_offset, coc_mult |-> I(2),
       cam_z_offset |-> Zero, fixed_y_center |-> NoneNum, ignore_ball_fit |-> ig,
       is_stereo |-> FALSE, stereo_base |-> Zero, stereo_align |-> "Horizontal"] :
      foc \in {I(6), Zero, I(-6)}, fs \in {I(2), Zero, I(-2)},
      dd \in DistChoices, fl \in FlightChoices, n \in 2..MaxNumPos,
      ig \in BOOLEAN }

InitCalc ==
    /\ args \in ArgSpace \cup EdgeArgs
    /\ base_params \in Baselines
    /\ called = FALSE
    /\ m = <<>>
    /\ ss = InitSS
    /\ w = <<>>
    /\ valid_configs = <<>>
    /\ msg = ""
    /\ vals = <<>>
    /\ run = "init"

\* a call either returns its dict or ends in the exception, which msg keeps
CallCalculateMetrics ==
    /\ ~called /\ msg = ""
    /\ IF Raises(args, base_params)
       THEN /\ msg' = "ZeroDivisionError"
            /\ UNCHANGED <<m, called>>
            /\ UNCHANGED <<args, base_params>>
       ELSE /\ m' = calculate_metrics(args, base_params)
            /\ args' = [args EXCEPT
                           !.sensor = frame_at_return(args, base_params).sensor]
            /\ base_params' = frame_at_return(args, base_params).base_params
            /\ called' = TRUE
            /\ msg' = msg
    /\ UNCHANGED <<ss, w, valid_configs, vals, run>>

NextCalc == CallCalculateMetrics

SpecCalc == InitCalc /\ [][NextCalc]_vars

(***************************************************************************)
(* Direct calls of the helpers: get_compatible_lenses, one pass of the     *)
(* catalog expansion, the rotation of the selected sensor and              *)
(* golden_section_search.  args.fn names what is called.                   *)
(***************************************************************************)
MaxTurns == 3

\* the slider of line 688 offers 50, 55, ..., 100
LensCalls ==
    { [fn |-> "get_compatible_lenses", sensor |-> SENSORS[sn],
       min_coverage_pct |-> 50 + 5 * k, include_varifocal |-> vf] :
      sn \in 1..Len(SENSORS), k \in 0..10, vf \in BOOLEAN }

ExpandCalls ==
    { [fn |-> "expand", raw |-> raw, drift |-> dr] :
      raw \in RAW_LENS_CHOICES, dr \in {-1, 0, 1} }

RotateCalls ==
    { [fn |-> "rotate_90", sensor_name |-> sn] : sn \in 1..Len(SENSORS) }

\* the parabola (x - k)^2 on [a, b] (millimetres, k in tenths), a <= k <= b
GssCalls ==
    { c \in [fn : {"golden_section_search"}, a : {-400, 0}, b : {50, 200},
             k : {-4000, -1234, 0, 1, 127, 333, 499, 500, 1999, 2000},
             tol : {1, 2, 5}] :
      c.a * 10 <= c.k /\ c.k <= c.b * 10 }

InitUnits ==
    /\ args \in LensCalls \cup ExpandCalls \cup RotateCalls \cup GssCalls
    /\ m = IF args.fn = "rotate_90"
           THEN [objs |-> SENSORS, sensor |-> args.sensor_name]
           ELSE <<>>
    /\ called = FALSE
    /\ base_params = DEFAULT_BASE_PARAMS
    /\ ss = InitSS
    /\ w = <<>>
    /\ valid_configs = <<>>
    /\ msg = ""
    /\ vals = <<>>
    /\ run = "init"

CallGetCompatibleLenses ==
    /\ args.fn = "get_compatible_lenses" /\ ~called
    /\ m' = get_compatible_lenses(args.sensor, args.min_coverage_pct,
                                  args.include_varifocal)
    /\ called' = TRUE
    /\ UNCHANGED <<args, base_params, ss, w, valid_configs, msg, vals, run>>

ExpandCatalogEntry ==
    /\ args.fn = "expand" /\ ~called
    /\ m' = ExpandEntry(args.raw, args.drift)
    /\ called' = TRUE
    /\ UNCHANGED <<args, base_params, ss, w, valid_configs, msg, vals, run>>

\* the rotation is applied to the sensor the last one derived
RotateSensor ==
    /\ args.fn = "rotate_90"
    /\ Len(m.objs) < Len(SENSORS) + MaxTurns
    /\ m' = rotate_90(m)
    /\ called' = TRUE
    /\ UNCHANGED <<args, base_params, ss, w, valid_configs, msg, vals, run>>

CallGoldenSectionSearch ==
    /\ args.fn = "golden_section_search" /\ ~called
    /\ m' = golden_section_search([k |-> args.k], args.a, args.b, args.tol)
    /\ called' = TRUE
    /\ UNCHANGED <<args, base_params, ss, w, valid_configs, msg, vals, run>>

NextUnits ==
    \/ CallGetCompatibleLenses
    \/ ExpandCatalogEntry
    \/ RotateSensor
    \/ CallGoldenSectionSearch

SpecUnits == InitUnits /\ [][NextUnits]_vars

(***************************************************************************)
(* golden_section_search pass by pass (simcam_calc.py:34-48, the same code *)
(* as simcam.py:217-231).  m holds the loop variables a, b, c, d and run   *)
(* the position: "call" before line 36, "loop" at the test of line 39,     *)
(* "returned" after line 48.                                               *)
(***************************************************************************)
\* objectives with one minimum inside or outside the interval, constant, and
\* with many minima
Objectives ==
    { [k |-> 127], [k |-> -4000], [k |-> 2600],
      [mul |-> 1, mod |-> 1], [mul |-> 3, mod |-> 10], [mul |-> 7, mod |-> 13],
      [mul |-> 1, mod |-> 100000], [mul |-> -1, mod |-> 100000] }

GssRuns ==
    { [fn |-> "golden_section_search", obj |-> o, a |-> ab[1], b |-> ab[2],
       tol |-> t] :
      o \in Objectives, ab \in {<<-400, 200>>, <<0, 50>>, <<-3, 4>>},
      t \in {1, 5} }

InitGss ==
    /\ args \in GssRuns
    /\ m = <<>>
    /\ run = "call"
    /\ called = FALSE
    /\ base_params = DEFAULT_BASE_PARAMS
    /\ ss = InitSS
    /\ w = <<>>
    /\ valid_configs = <<>>
    /\ msg = ""
    /\ vals = <<>>

\* lines 36-38
GssEnter ==
    /\ run = "call"
    /\ m' = gss_enter(args.a * 10, args.b * 10)
    /\ run' = "loop"
    /\ UNCHANGED <<args, called, base_params, ss, w, valid_configs, msg, vals>>

\* lines 39-47: the test holds and the body runs once
GssPass ==
    /\ run = "loop"
    /\ Abs(m.b - m.a) > args.tol * 10
    /\ m' = gss_pass(args.obj, m)
    /\ UNCHANGED <<args, called, base_params, ss, w, valid_configs, msg, vals, run>>

\* lines 39 and 48: the test fails and the midpoint is returned
GssReturn ==
    /\ run = "loop"
    /\ ~(Abs(m.b - m.a) > args.tol * 10)
    /\ m' = [a |-> m.a, b |-> m.b, c |-> m.c, d |-> m.d, x |-> R(m.b + m.a, 20)]
    /\ run' = "returned"
    /\ called' = TRUE
    /\ UNCHANGED <<args, base_params, ss, w, valid_configs, msg, vals>>

NextGss == GssEnter \/ GssPass \/ GssReturn

SpecGss == InitGss /\ [][NextGss]_vars

\* the function runs on once called
SpecGssFair == SpecGss /\ WF_vars(NextGss)

(***************************************************************************)
(* Properties of calculate_metrics (checked under SpecCalc)                *)
(***************************************************************************)
AllAnglesSet(r) ==
    /\ ~r.min_h_angle.isnone /\ ~r.max_h_angle.isnone
    /\ ~r.min_v_angle.isnone /\ ~r.max_v_angle.isnone

AllAnglesNone(r) ==
    /\ r.min_h_angle.isnone /\ r.max_h_angle.isnone
    /\ r.min_v_angle.isnone /\ r.max_v_angle.isnone

\* the ball at first_pos + i*spacing lies within the FOV bounds of result r
BallFits(a, r, i) ==
    LET c == RAdd(a.first_pos, RMul(I(i), a.spacing))
    IN  /\ RGe(RSub(c, BALL_RADIUS_MM), r.fov_bottom)
        /\ RLe(RAdd(c, BALL_RADIUS_MM), r.fov_top)

\* C1: with ignore_ball_fit=False the four launch angles are all non-null
\* when every scheduled ball (centre +/- radius) lies within
\* [fov_bottom, fov_top], and all four are None as soon as one ball does not.
C1_BallFitNullsAllAngles ==
    (called /\ ~args.ignore_ball_fit) =>
        IF \A i \in 0..(args.num_pos - 1) : BallFits(args, m, i)
        THEN AllAnglesSet(m)
        ELSE AllAnglesNone(m)

\* the first ball fits, a later one does not, and the angles are None
C1_Witness ==
    /\ called /\ ~args.ignore_ball_fit
    /\ BallFits(args, m, 0)
    /\ \E i \in 1..(args.num_pos - 1) : ~BallFits(args, m, i)
    /\ AllAnglesNone(m)

\* max(0, x - base)
Cut(x, base) == IF RLt(RSub(x, base), Zero) THEN Zero ELSE RSub(x, base)

\* sensor dimension * dist / focal, for the width and the height
RawFov(e) ==
    [w |-> RDiv(RMul(e.sensor_w, e.dist), e.focal),
     h |-> RDiv(RMul(e.sensor_h, e.dist), e.focal)]

\* the FOV entries of result r are those of C5 for the raw dimensions raw
EffectiveFovOf(a, r, raw) ==
    /\ r.raw_fov_w = raw.w /\ r.raw_fov_h = raw.h
    /\ (a.is_stereo /\ a.stereo_align = "Horizontal")
          => (r.fov_w = Cut(raw.w, a.stereo_base) /\ r.fov_h = raw.h)
    /\ (a.is_stereo /\ a.stereo_align # "Horizontal")
          => (r.fov_w = raw.w /\ r.fov_h = Cut(raw.h, a.stereo_base))
    /\ ~a.is_stereo => (r.fov_w = raw.w /\ r.fov_h = raw.h)

\* C5: with is_stereo the effective FOV along the baseline axis is
\* max(0, raw - stereo_base) and the orthogonal one is the raw dimension;
\* without is_stereo both are the raw dimensions whatever stereo_base is.
C5_StereoEffectiveFov ==
    called => EffectiveFovOf(args, m, RawFov(SensorLocals[Frame(args)]))

\* stereo, horizontal, baseline wider than the raw FOV: the overlap is 0
C5_Witness ==
    /\ called /\ args.is_stereo /\ args.stereo_align = "Horizontal"
    /\ RLt(m.raw_fov_w, args.stereo_base)
    /\ m.fov_w = Zero /\ m.fov_h = m.raw_fov_h

\* focal > 0, f_stop > 0, CoC > 0 in the frame e of the call
PositiveOptics(e) ==
    /\ RGt(e.focal, Zero) /\ RGt(e.f_stop, Zero) /\ RGt(e.coc, Zero)

\* the far limit comes from the finite branch of line 100
FiniteBranch(e) == PositiveOptics(e) /\ RGt(e.H, e.focus_dist)

\* H <= focus_dist, and the near limit of result r is H*fd/(H+fd)
HyperfocalBranch(e) == RLe(e.H, e.focus_dist)

NearLimitOf(e) == Mm3(RDiv(RMul(e.H, e.focus_dist), RAdd(e.H, e.focus_dist)))

\* C6: for focal > 0, f_stop > 0, CoC > 0, whenever the far limit comes from
\* the finite branch (H > focus_dist), near_limit < far_limit and
\* dof = far_limit - near_limit > 0.
C6_NearBelowFar ==
    (called /\ FiniteBranch(calculate_metrics_limits(args))) =>
        /\ RLt(m.near_limit, m.far_limit)
        /\ m.dof = RSub(m.far_limit, m.near_limit)
        /\ RGt(m.dof, Zero)

C6_Witness ==
    /\ called /\ FiniteBranch(calculate_metrics_limits(args))
    /\ RLt(m.near_limit, m.far_limit)
    /\ m.far_limit # I(99999)

\* C7: whenever H <= focus_dist, far_limit and dof are both the finite
\* sentinel 99999 and near_limit is still H*focus_dist/(H+focus_dist).
C7_HyperfocalSentinel ==
    (called /\ HyperfocalBranch(calculate_metrics_limits(args))) =>
        /\ m.far_limit = I(99999)
        /\ m.dof = I(99999)
        /\ m.near_limit = NearLimitOf(calculate_metrics_limits(args))

C7_Witness ==
    /\ called /\ HyperfocalBranch(calculate_metrics_limits(args))
    /\ m.far_limit = I(99999) /\ m.dof = I(99999)
    /\ RLt(m.near_limit, m.focus_dist)

SameAsBaseline(a, bp) ==
    /\ a.sensor = bp.sensor /\ a.wavelength = bp.wavelength
    /\ a.f_stop = bp.aperture /\ a.dist = bp.distance
    /\ ~a.binning

\* C8: a call with the baseline's sensor, wavelength, aperture and distance
\* and binning disabled returns bright = 100 exactly, whatever the focal
\* length, focus offset, offsets and ball schedule.
C8_BaselineBrightnessIs100 ==
    (called /\ SameAsBaseline(args, base_params)) => m.bright = I(100)

\* the baseline's exposure at a focal length other than the baseline's
C8_Witness ==
    /\ called /\ SameAsBaseline(args, base_params)
    /\ args.focal # base_params.focal
    /\ args.focus_offset # Zero
    /\ m.bright = I(100)

Binned(a) == [a EXCEPT !.binning = TRUE]
Unbinned(a) == [a EXCEPT !.binning = FALSE]

\* the entries res and bright of the dict returned for the arguments a
ResOf(a) == FieldOfView[SensorLocals[Frame(a)]].res
BrightOf(a, bp) ==
    Brightness[[SensorLocals[Frame(a)] EXCEPT !.base_params = bp]].bright_pct

\* C9: binning=True instead of binning=False, all else equal, returns a
\* resolution that is exactly half of the unbinned one.
C9_BinningHalvesResolution ==
    called =>
        IF args.binning
        THEN RMul(m.res, I(2)) = ResOf(Unbinned(args))
        ELSE m.res = RMul(ResOf(Binned(args)), I(2))

\* a binned call whose resolution is non-zero and half the unbinned one
C9_Witness ==
    /\ called /\ args.binning
    /\ RGt(m.res, Zero)
    /\ RMul(m.res, I(2)) = ResOf(Unbinned(args))

\* C10 as stated: binning=True instead of binning=False leaves bright
\* unchanged.
C10_BinningKeepsBrightness ==
    called =>
        IF args.binning
        THEN m.bright = BrightOf(Unbinned(args), base_params)
        ELSE m.bright = BrightOf(Binned(args), base_params)

\* C10 amended: binning=True instead of binning=False multiplies bright by
\* exactly 4 (the binned pixel has twice the pitch, four times the area).
C10_BinningQuadruplesBrightness ==
    called =>
        IF args.binning
        THEN m.bright = RMul(BrightOf(Unbinned(args), base_params), I(4))
        ELSE RMul(m.bright, I(4)) = BrightOf(Binned(args), base_params)

C10_Witness ==
    /\ called /\ args.binning
    /\ SameAsBaseline(Unbinned(args), base_params)
    /\ m.bright = I(400)

\* focal, f_stop or dist is zero or negative
Degenerate(a) == RLe(a.focal, Zero) \/ RLe(a.f_stop, Zero) \/ RLe(a.dist, Zero)

\* C11: calculate_metrics never raises for degenerate numeric inputs: when
\* focal, f_stop or dist is zero or negative, a call that has ended has
\* returned a metrics record.
C11_DegenerateInputsReturn ==
    (Degenerate(args) /\ (called \/ msg # "")) => (called /\ msg = "")

\* 0 < x < 1
Between01(x) == RGt(x, Zero) /\ RLt(x, I(1))

FocusSum(a) == RAdd(a.dist, a.focus_offset)

FlightSum(a) == RAdd(a.first_pos, RMul(I(a.num_pos - 1), a.spacing))

C14_InfiniteDofCapsAt90 ==
    (/\ called /\ HyperfocalBranch(calculate_metrics_limits(args))
     /\ m.far_limit = I(99999) /\ ~m.max_h_angle.isnone)
        => (m.max_h_angle = FixedDeg(90) /\ m.safe_far_dev = I(9999))

C25_FovAnchoring ==
    called =>
        /\ RSub(m.fov_top, m.fov_bottom) = m.fov_w
        /\ m.fov_center = RDiv(RAdd(m.fov_top, m.fov_bottom), I(2))
        /\ args.fixed_y_center.given => m.fov_center = args.fixed_y_center.v
        /\ ~args.fixed_y_center.given =>
              m.fov_bottom = IF args.include_club THEN R(-1524, 10)
                             ELSE RSub(args.first_pos, R(254, 10))

\* a club-mode call without fixed_y_center whose effective width is what
\* the horizontal stereo baseline leaves of the raw width
C25_Witness ==
    /\ called /\ ~args.fixed_y_center.given /\ args.include_club
    /\ RGt(m.fov_w, Zero) /\ RLt(m.fov_w, m.raw_fov_w)

\* tan(89 degrees) = 57.28996...
Tan89 == R(572900, 10000)

\* x <= y for two angles, x an arctangent
AngleLe(x, y) ==
    IF ~y.fixed THEN RLe(x.v, y.v)
    ELSE IF y.v = I(90) THEN TRUE
    ELSE RLe(x.v, Tan89)

VerticalAnglesSet(r) == ~r.min_v_angle.isnone /\ ~r.max_v_angle.isnone

\* C28: whenever calculate_metrics returns non-null vertical launch angles
\* for a positive focal length, f-number and distance, min_v_angle is at
\* most max_v_angle.
C28_MinVlaBelowMaxVla ==
    (/\ called /\ VerticalAnglesSet(m)
     /\ RGt(args.focal, Zero) /\ RGt(args.f_stop, Zero) /\ RGt(args.dist, Zero))
        => AngleLe(m.min_v_angle, m.max_v_angle)

(***************************************************************************)
(* Properties of the helpers (checked under SpecUnits)                     *)
(***************************************************************************)
\* image circle >= diagonal * pct / 100, compared by the squares
Covers(l, sensor, pct) ==
    RGe(RSq(l[4]), RMul(sensor_diagonal_sq(sensor), RSq(R(pct, 100))))

Wanted(l, a) ==
    /\ Covers(l, a.sensor, a.min_coverage_pct)
    /\ a.include_varifocal \/ ~l[5]

\* the place of entry l in the catalog
Pos(l) == CHOOSE i \in 1..Len(LENS_DATABASE) : LENS_DATABASE[i] = l

ValuesOf(data) ==
    IF data.range
    THEN { R(k, 10) : k \in (Micro(data.min) \div 100000)..(Micro(data.max) \div 100000) }
    ELSE {data.min}

\* C16: the expansion of a raw entry has, for a (min, max) focal or
\* aperture, one value per 0.1 step from min to max, both endpoints
\* present and none twice, and for a single value that value; it appends
\* exactly |focals| * |apertures| tuples, each with focal > 0, aperture > 0
\* and image circle > 0.
C16_ExpansionPerTenth ==
    (args.fn = "expand" /\ called) =>
        /\ {m[i][2] : i \in 1..Len(m)} = ValuesOf(args.raw.focal_data)
        /\ {m[i][3] : i \in 1..Len(m)} = ValuesOf(args.raw.aper_data)
        /\ Len(m) = Cardinality(ValuesOf(args.raw.focal_data))
                        * Cardinality(ValuesOf(args.raw.aper_data))
        /\ Cardinality({m[i] : i \in 1..Len(m)}) = Len(m)
        /\ \A i \in 1..Len(m) :
              RGt(m[i][2], Zero) /\ RGt(m[i][3], Zero) /\ RGt(m[i][4], Zero)

\* the varifocal entry, both of whose values are tuples, expanded with a
\* counter that runs ahead
C16_Witness ==
    /\ args.fn = "expand" /\ called
    /\ args.raw.focal_data.range /\ args.raw.aper_data.range
    /\ args.drift = 1
    /\ m[1][2] = args.raw.focal_data.min /\ m[Len(m)][2] = args.raw.focal_data.max
    /\ m[1][3] = args.raw.aper_data.min /\ m[Len(m)][3] = args.raw.aper_data.max

\* the raw entry an expanded entry comes from
RawOf(l) == CHOOSE raw \in RAW_LENS_CHOICES : raw.model = l[1]

InResult(l) == \E i \in 1..Len(m) : m[i] = l

\* C30: every tuple expanded from a raw entry carries the flag True exactly
\* when the raw entry's focal length is a (min, max) tuple, whatever its
\* aperture is, and the catalog entries of that model are among the tuples;
\* get_compatible_lenses with include_varifocal=False returns a covering
\* entry exactly when its raw entry has no focal range, so entries expanded
\* from an aperture range alone stay.
C30_VarifocalFlagFromFocalRange ==
    /\ (args.fn = "expand" /\ called) =>
          /\ \A i \in 1..Len(m) : m[i][5] = args.raw.focal_data.range
          /\ \A j \in 1..Len(LENS_DATABASE) :
                LENS_DATABASE[j][1] = args.raw.model => InResult(LENS_DATABASE[j])
    /\ (args.fn = "get_compatible_lenses" /\ called /\ ~args.include_varifocal) =>
          \A j \in 1..Len(LENS_DATABASE) :
              Covers(LENS_DATABASE[j], args.sensor, args.min_coverage_pct) =>
                  (InResult(LENS_DATABASE[j])
                      <=> ~RawOf(LENS_DATABASE[j]).focal_data.range)

\* without varifocal lenses the call keeps an entry expanded from an
\* aperture range and drops a covering entry expanded from a focal range
C30_Witness ==
    /\ args.fn = "get_compatible_lenses" /\ called /\ ~args.include_varifocal
    /\ \E j \in 1..Len(LENS_DATABASE) :
          /\ RawOf(LENS_DATABASE[j]).aper_data.range
          /\ ~RawOf(LENS_DATABASE[j]).focal_data.range
          /\ InResult(LENS_DATABASE[j])
    /\ \E j \in 1..Len(LENS_DATABASE) :
          /\ RawOf(LENS_DATABASE[j]).focal_data.range
          /\ Covers(LENS_DATABASE[j], args.sensor, args.min_coverage_pct)
          /\ ~InResult(LENS_DATABASE[j])

\* C26: for any objective, a < b and tol > 0 the search returns; at every
\* pass a <= c <= d <= b within the original interval, the new interval
\* lies in the previous one and its width is the previous width over phi
\* (to within 0.2 mm, the iterates being kept in tenths); the loop is left
\* with a width of at most tol and the value returned is the midpoint of
\* the last interval, inside the original one, and is what
\* golden_section_search gives.
C26_GssTerminatesNested ==
    /\ [](run \in {"loop", "returned"} =>
            /\ args.a * 10 <= m.a /\ m.a <= m.c /\ m.c <= m.d
            /\ m.d <= m.b /\ m.b <= args.b * 10)
    /\ [][(run = "loop" /\ run' = "loop") =>
            /\ m.a <= m'.a /\ m'.b <= m.b
            /\ m'.b - m'.a < m.b - m.a
            /\ Abs((m'.b - m'.a) - OverGr(m.b - m.a)) <= 2]_vars
    /\ [](run = "returned" =>
            /\ m.b - m.a <= args.tol * 10
            /\ m.x = R(m.a + m.b, 20)
            /\ RLe(I(args.a), m.x) /\ RLe(m.x, I(args.b))
            /\ m.x = golden_section_search(args.obj, args.a, args.b, args.tol))
    /\ <>(run = "returned")

\* a search over an objective with many minima has returned after passes
\* that moved both ends of the interval
C26_Witness ==
    /\ run = "returned" /\ "mod" \in DOMAIN args.obj /\ args.obj.mod > 1
    /\ args.a * 10 < m.a /\ m.b < args.b * 10

\* C17: a rotation swaps width_px and height_px on a derived copy, a
\* second rotation gives back the original width and height, and the
\* values of SENSORS are never modified.
C17_RotationRoundTrip ==
    args.fn = "rotate_90" =>
        LET turns == Len(m.objs) - Len(SENSORS)
            cur == m.objs[m.sensor]
            orig == SENSORS[args.sensor_name]
        IN  /\ SubSeq(m.objs, 1, Len(SENSORS)) = SENSORS
            /\ called => m.sensor > Len(SENSORS)
            /\ turns % 2 = 1 => cur = [orig EXCEPT !.width_px = orig.height_px,
                                                  !.height_px = orig.width_px]
            /\ turns % 2 = 0 => cur = orig

\* two rotations of a sensor that is not square
C17_Witness ==
    /\ args.fn = "rotate_90" /\ called
    /\ Len(m.objs) = Len(SENSORS) + 2
    /\ m.objs[m.sensor] = SENSORS[args.sensor_name]
    /\ m.objs[m.sensor - 1] # SENSORS[args.sensor_name]

\* C18: for f(x) = (x - k)^2 with a <= k <= b and tol > 0,
\* golden_section_search(f, a, b, tol) returns x with |x - k| <= tol.
C18_GssWithinTolerance ==
    (args.fn = "golden_section_search" /\ called) =>
        RLe(RAbs(RSub(m, R(args.k, 10))), I(args.tol))

\* a minimum strictly inside the interval, found to within the tolerance
\* but not exactly
C18_Witness ==
    /\ args.fn = "golden_section_search" /\ called
    /\ args.a * 10 < args.k /\ args.k < args.b * 10
    /\ m # R(args.k, 10)
    /\ RLe(RAbs(RSub(m, R(args.k, 10))), I(args.tol))

(***************************************************************************)
(* Claims about the "Optimize System" handler, checked under Spec          *)
(***************************************************************************)
SameOptics(s, t) ==
    /\ s.focal = t.focal /\ s.aperture = t.aperture /\ s.distance = t.distance
    /\ s.focus_offset = t.focus_offset /\ s.cam_z = t.cam_z
    /\ s.dist_parallel = t.dist_parallel

\* C2: when a search of "Optimize System" runs through the compatible
\* lenses and no candidate passes all checks, the run ends with the message
\* "No configuration found satisfying Targets." and focal, aperture,
\* distance, focus_offset, cam_z and dist_parallel keep the values they had
\* before the click.
C2_NoConfigLeavesState ==
    [][(run' = "optimize_system" /\ ~OptimizeRaises(w) /\ valid_configs' = <<>>)
        => (msg' = NoConfigMsg /\ SameOptics(ss', ss))]_vars

\* a failed search after an earlier search had moved the configuration
C2_Witness ==
    /\ run = "optimize_system" /\ msg = NoConfigMsg /\ valid_configs = <<>>
    /\ ~SameOptics(ss, InitSS)
    /\ RGt(w.target_res, Zero)

IsWinner(c, st) ==
    /\ st.focal = c.focal /\ st.aperture = c.aperture /\ st.distance = c.dist
    /\ st.focus_offset = c.offset /\ st.cam_z = c.cam_z
    /\ st.dist_parallel = RInt(c.parallel)

\* C3: after a successful "Optimize System" the configuration written to the
\* session state is an entry of valid_configs whose dof is the largest of
\* all entries and whose dist is the largest among the entries of that dof.
C3_WinnerMaxDofThenDist ==
    (run = "optimize_system" /\ valid_configs # <<>>)
        => \E i \in 1..Len(valid_configs) :
              /\ IsWinner(valid_configs[i], ss)
              /\ \A j \in 1..Len(valid_configs) :
                    /\ RLe(valid_configs[j].dof, valid_configs[i].dof)
                    /\ valid_configs[j].dof = valid_configs[i].dof
                          => valid_configs[j].dist <= valid_configs[i].dist

\* a search whose largest dof is shared by entries at different distances,
\* next to entries of smaller dof
C3_Witness ==
    /\ run = "optimize_system" /\ msg = ""
    /\ \E i, j, k \in 1..Len(valid_configs) :
          /\ IsWinner(valid_configs[i], ss)
          /\ valid_configs[j].dof = valid_configs[i].dof
          /\ valid_configs[j].dist < valid_configs[i].dist
          /\ RLt(valid_configs[k].dof, valid_configs[i].dof)

\* the arguments of the call at line 770 for the entry c of valid_configs
ConfigArgs(c, wd) ==
    CallArgs(wd, c.focal, c.aperture, I(c.dist), I(c.offset), I(c.cam_z),
             c.parallel, TRUE, I(trial_base(c.dist, wd)))

BrightOf_simcam(a) == Brightness_simcam[SensorLocals[Frame(a)]].bright_pct

\* C4: with target_res > 0 and target_bright > 0, every entry of
\* valid_configs has target_min_dist <= dist <= 1000, and calculate_metrics
\* for the entry's lens at that distance returns res >= target_res and
\* bright >= target_bright.
C4_ConfigsMeetHardTargets ==
    (run = "optimize_system" /\ RGt(w.target_res, Zero) /\ RGt(w.target_bright, Zero))
        => \A i \in 1..Len(valid_configs) :
              /\ w.target_min_dist <= valid_configs[i].dist
              /\ valid_configs[i].dist <= 1000
              /\ RGe(ResOf(ConfigArgs(valid_configs[i], w)), w.target_res)
              /\ RGe(BrightOf_simcam(ConfigArgs(valid_configs[i], w)),
                     w.target_bright)

\* a search that kept one entry at its resolution limit and another at its
\* brightness limit, below its resolution limit
C4_Witness ==
    /\ run = "optimize_system"
    /\ RGt(w.target_res, Zero) /\ RGt(w.target_bright, Zero)
    /\ \E i, j \in 1..Len(valid_configs) :
          LET ci == valid_configs[i]
              cj == valid_configs[j]
              li == <<ci.model, ci.focal, ci.aperture>>
              lj == <<cj.model, cj.focal, cj.aperture>>
          IN  /\ ci.dist = RInt(d_res(li, w))
              /\ cj.dist = d_bright_int(lj, w)
              /\ cj.dist < RInt(d_res(lj, w))

\* the frame of the engine's call for the entry c of valid_configs
FinalFrame(c, wd) == calculate_metrics_near(ConfigArgs(c, wd))

\* C19: the parallel offset of every candidate of "Optimize System" puts the
\* FOV bottom (centre minus half the effective FOV width) where the metrics
\* engine anchors it: at -152.4 mm in club-tracking mode, at
\* first_pos - 25.4 mm in ball mode.
C19_ParallelFollowsEngineAnchor ==
    run = "optimize_system" =>
        \A i \in 1..Len(valid_configs) :
            FinalFrame(valid_configs[i], w).fov_bottom
                = IF w.include_club THEN R(-1524, 10)
                  ELSE RSub(w.first_pos, R(254, 10))

\* tan(x - 0.5 degrees) from tan x
TanMinusHalf(t) == RDiv(RSub(t, Tan05), RAdd(I(1), RMul(t, Tan05)))

\* C20 as stated: every accepted configuration has a final minimum vertical
\* launch angle within 0.5 degrees of target_min_vla, on both sides.
C20_MinVlaWithinHalfDegree ==
    run = "optimize_system" =>
        \A i \in 1..Len(valid_configs) :
            /\ RGe(FinalFrame(valid_configs[i], w).min_v_angle.v,
                   TanMinusHalf(w.target_min_vla.tan))
            /\ RLe(FinalFrame(valid_configs[i], w).min_v_angle.v,
                   TanPlusHalf(w.target_min_vla.tan))

\* C20 amended: every accepted configuration has a final minimum vertical
\* launch angle of at most target_min_vla + 0.5 degrees.
C20_MinVlaAtMostHalfAbove ==
    run = "optimize_system" =>
        \A i \in 1..Len(valid_configs) :
            RLe(FinalFrame(valid_configs[i], w).min_v_angle.v,
                TanPlusHalf(w.target_min_vla.tan))

\* an accepted configuration whose camera offset is not zero and whose
\* final angle is more than 0.5 degrees below the target
C20_Witness ==
    /\ run = "optimize_system"
    /\ \E i \in 1..Len(valid_configs) :
          /\ valid_configs[i].cam_z # 0
          /\ RLt(FinalFrame(valid_configs[i], w).min_v_angle.v,
                 TanMinusHalf(w.target_min_vla.tan))


(***************************************************************************)
(* Properties of the single-axis buttons (checked under SpecAxis)          *)
(***************************************************************************)
\* the resolution the call of line 858 returns for the distance d
res_at(st, wd, d) ==
    FieldOfView[SensorLocals[Frame(DistTrialArgs(st, wd, d))]].res

BrightEnough(st, wd, d) == RGe(bright_at(st, wd, d), wd.target_bright)

MeetsBothTargets(st, wd, d) ==
    RGe(res_at(st, wd, d), wd.target_res) /\ BrightEnough(st, wd, d)

C22_NoSilentFallback ==
    [][(/\ run' = "optimize_fstop"
        /\ FstopRaises(ss, w) = ""
        /\ valid_subset(ss, w) = {})
        => /\ msg' # ""
           /\ ss'.aperture = ss.aperture]_vars

\* C24: a scanned focus offset at which the far limit is the hyperfocal
\* 99999 has the centering error 0, so no offset with a finite far limit
\* has a smaller error.
C24_HyperfocalScoredZero ==
    run = "optimize_focus"
    => \A i \in 0..119 :
          calculate_metrics_limits(FocusTrialArgs(ss, w, -400 + 5 * i)).df = I(99999)
          => diff_at(ss, w, -400 + 5 * i) = Zero

FinalMetrics(l, dist, wd) ==
    LET WithOffset[off \in Int] ==
            AnglesFrame[DepthOfField[FieldOfView[SensorLocals[Frame(
                LensArgs(l, dist, wd, I(off), I(optimal_cam_z(l, dist, wd, off))))]]]]
    IN  WithOffset[best_off(l, dist, wd)]

\* the page computed for the sliders st shows "NOT VISIBLE": with
\* ignore_ball_fit=False the angles are None
NotVisible(st, wd) == Render(st, wd).min_h_angle.isnone

\* C27: every final_m that "Optimize System" computes (ignore_ball_fit=True)
\* has non-null launch angles, so a lens that passes the distance test and
\* the vertical-angle test of line 774 is in valid_configs whether or not
\* every scheduled ball fits the FOV.
C27_BallFitNeverRejects ==
    (run = "optimize_system" /\ ~OptimizeRaises(w))
    => \A k \in 1..Len(compatible_lenses(w)) :
          LET l == compatible_lenses(w)[k]
              d == max_valid_dist(l, w)
              final_m == FinalMetrics(l, d, w)
          IN  d >= w.target_min_dist
              => /\ ~final_m.min_h_angle.isnone /\ ~final_m.max_h_angle.isnone
                 /\ ~final_m.min_v_angle.isnone /\ ~final_m.max_v_angle.isnone
                 /\ RLe(final_m.min_v_angle.v, TanPlusHalf(w.target_min_vla.tan))
                       => \E i \in 1..Len(valid_configs) :
                             /\ valid_configs[i].model = l[1]
                             /\ valid_configs[i].focal = l[2]
                             /\ valid_configs[i].aperture = l[3]
                             /\ valid_configs[i].dist = d

\* the winner has been applied to the sliders and the page computed from
\* them has no launch angles: a scheduled ball is outside the FOV
C27_Witness ==
    /\ run = "optimize_system" /\ valid_configs # <<>>
    /\ ss.focal = valid_configs[1].focal
    /\ ss.distance = valid_configs[1].dist
    /\ vals.min_h_angle.isnone

====
